---- MODULE Spec2Model ----
(***************************************************************************)
(* Topix runtime orchestration core: the plugin fetch/retention pipeline   *)
(* (PluginManager + TopixDatabase), the cron scheduler (Scheduler), the    *)
(* configuration manager and file watcher (ConfigManager, ConfigWatcher,   *)
(* config-file), the credential vault (AuthManager) and the service        *)
(* lifecycle (ServiceManager).                                             *)
(***************************************************************************)
EXTENDS Integers, Sequences, FiniteSets, TLC

VARIABLES
    plugins,      \* PluginManager.plugins: ids of the loaded plugins
    initialized,  \* plugins whose initialize() succeeded and were not shut down since
    config,       \* ConfigManager.config: the in-memory document
    file,         \* config.yaml on disk
    headlines,    \* table headlines: rows [id, plugin_id, pub_date]
    pluginRows,   \* table plugin_configs: plugin_id -> [last_run, last_error]
    now,          \* wall clock: hours in the fetch pipeline, minutes in the vault
    nextId,       \* next unused uuid
    inflight,     \* per plugin, the fetchFromPlugin calls awaiting plugin.fetchHeadlines
    fetchCalls,   \* number of plugin.fetchHeadlines invocations so far
    batch,        \* the fetchFromAllPlugins call in progress, if any
    tasks,        \* Scheduler.tasks: pluginId -> cron expression of its task
    timers,       \* node-cron: how many tasks of a plugin and expression are
                  \* scheduled and not stopped
    running,      \* Scheduler.running
    watching,     \* ConfigWatcher.watcher !== null
    debounceTimer,\* ConfigWatcher.debounceTimer is pending
    timeouts,     \* the timeouts handleFileChange has set that neither fired nor
                  \* were cleared: the milliseconds each has left, newest last
    reload,       \* the change handlers awaiting handleConfigReload, each with the
                  \* plugin configurations it read
    keychain,     \* OS keychain entries of service com.topix.app: account -> payload
    keychainOk,   \* whether keytar calls currently succeed (environment)
    keychainAvailable, \* AuthManager.keychainAvailable
    authRows,     \* table auth: plugin_id -> [auth_type, credentials]
    probe,        \* the constructor's keytar.findCredentials promise is pending
    stored,       \* history: per plugin, the credentials last passed to
                  \* storeCredentials and whether the keychain took them
    server,       \* ServiceManager.server: "null", or a Server that is "listening"
                  \* or "closed" (not listening)
    pidFile,      \* topix.pid in the data directory: <<>> or its content
    statusFile,   \* topix.status.json in the data directory: <<>> or its content
    signalHandlers, \* the SIGTERM and SIGINT handlers are installed
    dbInstance,   \* the database connection of this process is open
    foreign,      \* the service process other than this one, if it lives, and
                  \* whether a SIGTERM was sent to it
    stopCall,     \* the stop() of this controller that waits for another process
    startCall,    \* the start() of this controller that waits at an await: the
                  \* steps it has taken and the steps it has left
    signals,      \* the signal handlers at an await of their stop(), oldest first,
                  \* and the code the process exited with, if it has
    startedAt,    \* ServiceManager.startedAt: <<>> (null) or the time in it
    upstream,     \* what the plugins can do in this run: list length, date range,
                  \* retention answers, plugins whose initialize() can fail
    last          \* what the last operation returned, threw or logged

vars == <<plugins, initialized, config, file, headlines, pluginRows, now, nextId,
          inflight, fetchCalls, batch, tasks, timers, running, watching, debounceTimer, timeouts,
          reload, keychain, keychainOk, keychainAvailable, authRows, probe, stored,
          server, pidFile, statusFile, signalHandlers, dbInstance, foreign, stopCall,
          startCall, signals, startedAt, upstream, last>>

fetchVars  == <<headlines, pluginRows, nextId, inflight, fetchCalls, batch, upstream>>
configVars == <<config, file, watching, debounceTimer, timeouts, reload>>
vaultVars  == <<keychain, keychainOk, keychainAvailable, authRows, probe, stored>>
serviceVars == <<server, pidFile, statusFile, signalHandlers, dbInstance, foreign, stopCall,
                 startCall, signals, startedAt>>

----------------------------------------------------------------------------
\* Bounds of the model

MaxTime    == 4      \* the clock runs from StartTime to MaxTime
MaxId      == 3      \* uuids handed out
MaxBatch   == 2      \* headlines one plugin.fetchHeadlines call returns
MaxFetches == 2      \* plugin.fetchHeadlines invocations in one run
MaxKeep    == 1      \* largest N of a count(N) policy
MaxHours   == 1      \* largest H of a duration(H) policy

StartTime  == MaxHours + 1

\* The plugin ids that occur: two with an implementation on disk, one without.
Loadable  == {"alpha", "beta"}
PluginIds == Loadable \cup {"ghost"}

\* Map insertion order of PluginManager.plugins (the order of readdirSync)
LoadOrder == <<"alpha", "beta">>

NoError == "none"            \* no exception / SQL NULL in last_error
Errors  == {"boom", ""}      \* messages a plugin's Error can carry ("" : new Error())

Times == 0..MaxTime

NullDate == <<>>             \* SQL NULL in a DATETIME column

----------------------------------------------------------------------------
\* Dates.  Date.toISOString() yields a fixed-width, zero-padded string; SQLite
\* compares the TEXT column pub_date lexicographically.

ToISOString(t) == <<t \div 10, t % 10>>

IsoLess(a, b) == a[1] < b[1] \/ (a[1] = b[1] /\ a[2] < b[2])

\* The local zone leaves daylight saving time at DstEnd: before it local time is
\* one hour ahead of standard time.
DstEnd == 2

TzOffset(t) == IF t < DstEnd THEN 1 ELSE 0

\* Date.getHours(): the local reading of instant t
GetHours(t) == t + TzOffset(t)

\* Date.setHours(h): the instant whose local reading is h; a repeated local
\* hour is read with the offset in force before the transition
SetHours(h) ==
    IF h - 1 < DstEnd THEN h - 1 ELSE h

\* cutoffDate = new Date(); cutoffDate.setHours(cutoffDate.getHours() - hours)
Cutoff(t, hours) == SetHours(GetHours(t) - hours)

----------------------------------------------------------------------------
\* TopixDatabase: headlines

Row(h) == [id |-> h.id, plugin_id |-> h.pluginId, pub_date |-> ToISOString(h.pubDate)]

\* id is the PRIMARY KEY of headlines: a second row with the id is refused
CanInsert(rows, h) == \A r \in rows : r.id # h.id

InsertHeadline(rows, h) == rows \cup {Row(h)}

RowsOf(rows, p) == {r \in rows : r.plugin_id = p}

\* The query with ORDER BY pub_date ASC: the oldest rows
KeepIdsAscending(rows, p, keepCount) ==
    LET own == RowsOf(rows, p)
        n   == IF keepCount < Cardinality(own) THEN keepCount ELSE Cardinality(own)
    IN  { K \in SUBSET own :
            /\ Cardinality(K) = n
            /\ \A k \in K : \A r \in own \ K : ~IsoLess(r.pub_date, k.pub_date) }

\* SELECT id FROM headlines WHERE plugin_id = ? ORDER BY pub_date DESC LIMIT ?
\* Rows of equal pub_date come in an order SQLite does not fix: every answer
\* the query can give.
KeepIds(rows, p, keepCount) ==
    LET own == RowsOf(rows, p)
        n   == IF keepCount < Cardinality(own) THEN keepCount ELSE Cardinality(own)
    IN  { K \in SUBSET own :
            /\ Cardinality(K) = n
            /\ \A k \in K : \A r \in own \ K : ~IsoLess(k.pub_date, r.pub_date) }

\* The tables deleteOldHeadlinesByCount can leave
DeleteOldHeadlinesByCount(rows, p, keepCount) ==
    { IF K = {}
        THEN rows \ RowsOf(rows, p)
        ELSE {r \in rows : ~(r.plugin_id = p /\ r.id \notin {k.id : k \in K})}
      : K \in KeepIds(rows, p, keepCount) }

\* DELETE FROM headlines WHERE plugin_id = ? AND pub_date < cutoff
DeleteOldHeadlinesByDuration(rows, p, hours, t) ==
    {r \in rows : ~(r.plugin_id = p /\ IsoLess(r.pub_date, ToISOString(Cutoff(t, hours))))}

\* TopixDatabase: plugin_configs.  UPDATE ... WHERE plugin_id = ? changes a row
\* only if there is one; `error || null` stores NULL for undefined and for "".
UpdatePluginRun(rows, p, error, t) ==
    IF p \in DOMAIN rows
    THEN [rows EXCEPT ![p] = [last_run   |-> ToISOString(t),
                              last_error |-> IF error = "" THEN NoError ELSE error]]
    ELSE rows

----------------------------------------------------------------------------
\* Retention policies a plugin's getRetentionPolicy() can answer

RetentionPolicies ==
    {[type |-> "count", value |-> n] : n \in 0..MaxKeep}
    \cup {[type |-> "duration", value |-> h] : h \in 1..MaxHours}
    \cup {[type |-> "unlimited", value |-> 0]}

\* ... or the call throws (isValidPlugin does not require the method)
PolicyThrows == [type |-> "throws", value |-> 0]

\* PluginManager.enforceRetentionPolicy: the tables it can leave
EnforceRetentionPolicy(rows, p, policy, t) ==
    CASE policy.type = "count"     -> DeleteOldHeadlinesByCount(rows, p, policy.value)
      [] policy.type = "duration"  -> {DeleteOldHeadlinesByDuration(rows, p, policy.value, t)}
      [] policy.type = "unlimited" -> {rows}

----------------------------------------------------------------------------
\* Configuration documents (config-file.ts TopixConfig, the parts the core reads)

\* A YAML scalar as JavaScript sees it; numbers are in tenths (5 is 0.5)
Num(n) == [type |-> "number", value |-> n]
Str(n) == [type |-> "string", value |-> n]     \* a string of n characters

ValidCrons == {"*/5", "*/15"}
Schedules  == ValidCrons \cup {"every day"}

\* cron.validate
CronValidate(schedule) == schedule \in ValidCrons

\* Object.entries order of config.plugins
IdOrder == <<"alpha", "beta", "ghost">>

HasConfig(cfg, p) == p \in DOMAIN cfg.plugins

\* yamlPluginToDbPlugin(...).enabled of PluginManager.getPluginConfig
Enabled(cfg, p) == HasConfig(cfg, p) /\ cfg.plugins[p].enabled = TRUE

\* PluginManager.getEnabledPlugins: loaded plugins, in Map order, whose config is enabled
GetEnabledPlugins(loaded, cfg) ==
    SelectSeq(LoadOrder, LAMBDA p : p \in loaded /\ Enabled(cfg, p))

\* feed.title and llm.provider of getDefaultConfig
DefaultFeed == [title |-> Str(16)]
DefaultLLM  == [provider |-> Str(6)]

\* getDefaultConfig, the parts the core reads
GetDefaultConfig == [feed |-> DefaultFeed, llm |-> DefaultLLM, threshold |-> Num(5), plugins |-> [q \in {} |-> [enabled |-> FALSE, schedule |-> ""]]]

\* loadConfig: the defaults when the file does not exist, the defaults again
\* when js-yaml's load throws (the catch block), else the parsed document
LoadConfig(f) ==
    IF f.kind = "absent" THEN GetDefaultConfig
    ELSE IF f.kind = "malformed" THEN GetDefaultConfig
    ELSE f.doc

\* JavaScript truthiness of a scalar
Truthy(v) == IF v.type = "number" THEN v.value # 0 ELSE v.value > 0

\* The rule without the range: only the type of defaultThreshold is looked at
ValidateConfigTypeOnly(cfg) ==
    ~(Truthy(cfg.threshold) /\ cfg.threshold.type # "number")

\* validateConfig(...).valid: importance.defaultThreshold, when truthy, must be
\* a number between 0 and 1 (the documents of the model differ in nothing
\* else that the function looks at)
ValidateConfig(cfg) ==
    ~(Truthy(cfg.threshold) /\
        (cfg.threshold.type # "number" \/ cfg.threshold.value < 0 \/ cfg.threshold.value > 10))

----------------------------------------------------------------------------
\* The observable outcome of an operation: what it returned, threw or logged

NoPolicy == [type |-> "none", value |-> 0]

Event(op, p, err) ==
    [op |-> op, pluginId |-> p, error |-> err, steps |-> <<>>,
     policy |-> NoPolicy, returned |-> <<>>]

----------------------------------------------------------------------------
\* PluginManager.fetchFromPlugin

NotFound   == "Plugin not found"
NotEnabled == "Plugin is not enabled"

\* The checks without the one on the configuration
PrecheckLoaded(loaded, cfg, p) ==
    IF p \notin loaded THEN NotFound ELSE NoError

\* lines 408-418: the checks made before the plugin is called
Precheck(loaded, cfg, p) ==
    IF p \notin loaded THEN NotFound
    ELSE IF ~Enabled(cfg, p) THEN NotEnabled
    ELSE NoError

\* lines 432-434: for (const headline of headlines) this.db.insertHeadline(headline)
RECURSIVE StoreHeadlines(_, _, _)
StoreHeadlines(rows, hs, i) ==
    IF i > Len(hs) THEN [rows |-> rows, stored |-> Len(hs), error |-> NoError]
    ELSE IF ~CanInsert(rows, hs[i])
         THEN [rows |-> rows, stored |-> i - 1, error |-> "UNIQUE constraint failed"]
         ELSE StoreHeadlines(InsertHeadline(rows, hs[i]), hs, i + 1)

Inserts(n) == [k \in 1..n |-> "insert"]

\* The pipeline with the retention policy applied before the headlines are stored
FetchOutcomesRetainFirst(rows, runs, p, out, pol, t) ==
    IF out.kind = "throw"
    THEN {[rows |-> rows, runs |-> UpdatePluginRun(runs, p, out.error, t),
           error |-> out.error, steps |-> <<"record-error">>]}
    ELSE IF pol \notin RetentionPolicies
    THEN {[rows |-> rows, runs |-> UpdatePluginRun(runs, p, "no policy", t),
           error |-> "no policy", steps |-> <<"record-error">>]}
    ELSE
      { LET st == StoreHeadlines(r1, out.headlines, 1) IN
        [rows |-> st.rows, runs |-> UpdatePluginRun(runs, p, st.error, t),
         error |-> st.error,
         steps |-> <<"retention">> \o Inserts(st.stored) \o <<"record-run">>]
        : r1 \in EnforceRetentionPolicy(rows, p, pol, t) }

\* lines 429-454 after the await: what one completed plugin call can leave.
\* out is what plugin.fetchHeadlines answered, pol what getRetentionPolicy answers.
FetchOutcomes(rows, runs, p, out, pol, t) ==
    IF out.kind = "throw"
    THEN {[rows |-> rows, runs |-> UpdatePluginRun(runs, p, out.error, t),
           error |-> out.error, steps |-> <<"record-error">>]}
    ELSE
      LET st == StoreHeadlines(rows, out.headlines, 1) IN
      IF st.error # NoError
      THEN {[rows |-> st.rows, runs |-> UpdatePluginRun(runs, p, st.error, t),
             error |-> st.error, steps |-> Inserts(st.stored) \o <<"record-error">>]}
      ELSE IF pol = PolicyThrows
      THEN {[rows |-> st.rows,
             runs |-> UpdatePluginRun(runs, p, "getRetentionPolicy is not a function", t),
             error |-> "getRetentionPolicy is not a function",
             steps |-> Inserts(st.stored) \o <<"record-error">>]}
      ELSE {[rows |-> r2, runs |-> UpdatePluginRun(runs, p, NoError, t),
             error |-> NoError,
             steps |-> Inserts(st.stored) \o <<"retention", "record-run">>]
            : r2 \in EnforceRetentionPolicy(st.rows, p, pol, t)}

\* What a plugin's fetchHeadlines can answer: it throws, or returns up to
\* MaxBatch headlines of its own, each with a new uuid or an id used before.
\* upstream.len bounds the list, upstream.age how far before the fetch pubDate
\* can lie (the built-in plugins stamp pubDate = new Date(); older rows arise
\* as the clock advances).
HeadlineLists(p, first, t) ==
    UNION { { hs \in [1..n -> [id : 1..MaxId, pluginId : {p},
                               pubDate : {d \in Times : d <= t /\ t - d <= upstream.age}]] :
                \A i \in 1..n : hs[i].id <= first + i - 1 }
            : n \in 0..upstream.len }

PluginAnswers(p, first, t) ==
    {[kind |-> "throw", error |-> e, headlines |-> <<>>] : e \in Errors}
    \cup {[kind |-> "ok", error |-> NoError, headlines |-> hs]
          : hs \in HeadlineLists(p, first, t)}

MaxOf(S, d) == IF S = {} THEN d ELSE CHOOSE x \in S : \A y \in S : y <= x

NextIdAfter(first, hs) == MaxOf({first} \cup {hs[i].id + 1 : i \in 1..Len(hs)}, first)

----------------------------------------------------------------------------
\* Scheduler

NoTasks  == [q \in {} |-> ""]
NoTimers == [x \in PluginIds \X ValidCrons |-> 0]

\* The Map of the scheduler with the timers of node-cron
Sched(ts, tm) == [tasks |-> ts, timers |-> tm]

\* cron.schedule(schedule, ..., {scheduled: true}): one more live timer
CronSchedule(tm, p, schedule) == [tm EXCEPT ![<<p, schedule>>] = @ + 1]

\* task.stop() on the plugin's entry of the Map and tasks.delete(pluginId),
\* when the Map has an entry
StopTask(S, p) ==
    IF p \notin DOMAIN S.tasks THEN S
    ELSE Sched([q \in (DOMAIN S.tasks) \ {p} |-> S.tasks[q]],
               [S.timers EXCEPT ![<<p, S.tasks[p]>>] = @ - 1])

\* schedulePlugin that removes the existing task before it validates
SchedulePluginStopsFirst(S, p, schedule) ==
    LET T == StopTask(S, p) IN
    IF ~CronValidate(schedule) THEN T
    ELSE Sched([q \in (DOMAIN T.tasks) \cup {p} |-> IF q = p THEN schedule ELSE T.tasks[q]],
               CronSchedule(T.timers, p, schedule))

\* schedulePlugin that overwrites the Map entry without stopping its task
SchedulePluginKeepsOld(S, p, schedule) ==
    IF ~CronValidate(schedule) THEN S
    ELSE Sched([q \in (DOMAIN S.tasks) \cup {p} |-> IF q = p THEN schedule ELSE S.tasks[q]],
               CronSchedule(S.timers, p, schedule))

\* Scheduler.schedulePlugin: an invalid expression is refused before any timer
\* is touched; otherwise the task of the plugin, if any, is stopped and
\* deleted, and a new one is scheduled and put into the Map
SchedulePlugin(S, p, schedule) ==
    IF ~CronValidate(schedule) THEN S
    ELSE LET T == StopTask(S, p) IN
         Sched([q \in (DOMAIN T.tasks) \cup {p} |-> IF q = p THEN schedule ELSE T.tasks[q]],
               CronSchedule(T.timers, p, schedule))

\* the loop of Scheduler.start over the enabled entries of config.plugins
RECURSIVE ScheduleEnabled(_, _, _)
ScheduleEnabled(S, cfg, i) ==
    IF i > Len(IdOrder) THEN S
    ELSE LET p == IdOrder[i] IN
         IF Enabled(cfg, p)
         THEN ScheduleEnabled(SchedulePlugin(S, p, cfg.plugins[p].schedule), cfg, i + 1)
         ELSE ScheduleEnabled(S, cfg, i + 1)

\* Scheduler.stop that clears the Map without stopping the tasks
StopAllClearsOnly(S, i) == Sched(NoTasks, S.timers)

\* the loop of Scheduler.stop: task.stop() on every task of the Map, then
\* tasks.clear()
RECURSIVE StopAll(_, _)
StopAll(S, i) ==
    IF i > Len(IdOrder) THEN S ELSE StopAll(StopTask(S, IdOrder[i]), i + 1)

SchedulerStart ==
    /\ ~running
    /\ LET r == ScheduleEnabled(Sched(tasks, timers), config, 1) IN
          tasks' = r.tasks /\ timers' = r.timers
    /\ running' = TRUE
    /\ last' = Event("Scheduler.start", "", NoError)
    /\ UNCHANGED <<plugins, initialized, now, fetchVars, configVars, vaultVars, serviceVars>>

SchedulerStop ==
    /\ running
    /\ LET r == StopAll(Sched(tasks, timers), 1) IN
          tasks' = r.tasks /\ timers' = r.timers
    /\ running' = FALSE
    /\ last' = Event("Scheduler.stop", "", NoError)
    /\ UNCHANGED <<plugins, initialized, now, fetchVars, configVars, vaultVars, serviceVars>>

----------------------------------------------------------------------------
\* Fetching

InFlight(p) ==
    inflight[p] + (IF batch.pc = "await" /\ batch.cur = p THEN 1 ELSE 0)

\* fetchFromPlugin up to its await: it throws, or the plugin is called
BeginFetch(op, p) ==
    LET err == Precheck(plugins, config, p) IN
    IF err # NoError
    THEN /\ last' = Event(op, p, err)
         /\ UNCHANGED <<inflight, fetchCalls>>
    ELSE /\ fetchCalls < MaxFetches
         /\ inflight' = [inflight EXCEPT ![p] = @ + 1]
         /\ fetchCalls' = fetchCalls + 1
         /\ last' = [Event(op, p, NoError) EXCEPT !.steps = <<"fetchHeadlines">>]

\* A timer fires: Scheduler.executePlugin(pluginId)
CronFire(p) ==
    /\ \E schedule \in ValidCrons : timers[<<p, schedule>>] > 0
    /\ IF p \notin plugins
       THEN /\ last' = Event("executePlugin", p, NotFound)
            /\ UNCHANGED <<inflight, fetchCalls>>
       ELSE BeginFetch("executePlugin", p)
    /\ UNCHANGED <<plugins, initialized, now, headlines, pluginRows, nextId, batch,
                   tasks, timers, running, configVars, vaultVars, upstream, serviceVars>>

\* A caller (the CLI's fetch command) invokes fetchFromPlugin(pluginId)
ManualFetch(p) ==
    /\ BeginFetch("fetchFromPlugin", p)
    /\ UNCHANGED <<plugins, initialized, now, headlines, pluginRows, nextId, batch,
                   tasks, timers, running, configVars, vaultVars, upstream, serviceVars>>

\* What getRetentionPolicy can answer when it is asked: only after every
\* returned headline has been stored
PolicyAnswers(rows, out) ==
    IF out.kind = "ok" /\ StoreHeadlines(rows, out.headlines, 1).error = NoError
    THEN upstream.policies
    ELSE {NoPolicy}

\* The awaited plugin.fetchHeadlines settles and fetchFromPlugin runs to its end
FetchComplete(p) ==
    /\ inflight[p] > 0
    /\ \E out \in PluginAnswers(p, nextId, now) :
       \E pol \in PolicyAnswers(headlines, out) :
       \E res \in FetchOutcomes(headlines, pluginRows, p, out, pol, now) :
          /\ headlines' = res.rows
          /\ pluginRows' = res.runs
          /\ nextId' = NextIdAfter(nextId, out.headlines)
          /\ last' = [op |-> "fetchDone", pluginId |-> p, error |-> res.error,
                      steps |-> res.steps, policy |-> pol, returned |-> out.headlines]
    /\ inflight' = [inflight EXCEPT ![p] = @ - 1]
    /\ UNCHANGED <<plugins, initialized, now, fetchCalls, batch, tasks, timers, running,
                   configVars, vaultVars, upstream, serviceVars>>

\* The CLI's fetch command: one fetchFromPlugin, awaited before the process ends
CliFetch(p) ==
    /\ \A q \in PluginIds : inflight[q] = 0
    /\ BeginFetch("fetchFromPlugin", p)
    /\ UNCHANGED <<plugins, initialized, now, headlines, pluginRows, nextId, batch,
                   tasks, timers, running, configVars, vaultVars, upstream, serviceVars>>

\* The clock advances
Tick ==
    /\ now < MaxTime
    /\ now' = now + 1
    /\ last' = Event("tick", "", NoError)
    /\ UNCHANGED <<plugins, initialized, fetchVars, tasks, timers, running, configVars, vaultVars, serviceVars>>

\* The CLI's `plugin config` writes a plugin_configs row (db.upsertPluginConfig),
\* keeping the run-state of a row that exists
UpsertPluginConfig(p) ==
    /\ p \in plugins
    /\ p \notin DOMAIN pluginRows
    /\ pluginRows' = [q \in (DOMAIN pluginRows) \cup {p} |->
                         IF q = p THEN [last_run |-> NullDate, last_error |-> NoError]
                         ELSE pluginRows[q]]
    /\ last' = Event("upsertPluginConfig", p, NoError)
    /\ UNCHANGED <<plugins, initialized, now, headlines, nextId, inflight, fetchCalls,
                   batch, tasks, timers, running, configVars, vaultVars, upstream, serviceVars>>

----------------------------------------------------------------------------
\* PluginManager.initialize / fetchFromAllPlugins

InitFailed == "initialize failed"

\* initializeEnabledPlugins: each enabled configuration whose plugin is loaded
\* is initialized; a failure is recorded with updatePluginRun and the loop goes on.
\* ok is the set of plugins whose initialize() succeeds.
RECURSIVE InitializeEnabledPlugins(_, _, _, _, _, _)
InitializeEnabledPlugins(loaded, cfg, ok, runs, t, i) ==
    IF i > Len(IdOrder) THEN runs
    ELSE LET p == IdOrder[i] IN
         IF Enabled(cfg, p) /\ p \in loaded /\ p \notin ok
         THEN InitializeEnabledPlugins(loaded, cfg, ok,
                                       UpdatePluginRun(runs, p, InitFailed, t), t, i + 1)
         ELSE InitializeEnabledPlugins(loaded, cfg, ok, runs, t, i + 1)

\* initializeEnabledPlugins that says nothing of a configuration without a plugin
RECURSIVE InitializeLogQuiet(_, _, _, _, _)
InitializeLogQuiet(loaded, cfg, ok, verbose, i) ==
    IF i > Len(IdOrder) THEN <<>>
    ELSE LET p == IdOrder[i]
             rest == InitializeLogQuiet(loaded, cfg, ok, verbose, i + 1)
         IN  IF Enabled(cfg, p) /\ p \in loaded /\ p \notin ok
             THEN <<[level |-> "error", pluginId |-> p]>> \o rest
             ELSE rest

\* initializeEnabledPlugins: what it writes to the console about the plugins it
\* does not initialize, a warning for an enabled configuration without a loaded
\* plugin (when verbose) and an error for an initialize() that threw
RECURSIVE InitializeLog(_, _, _, _, _)
InitializeLog(loaded, cfg, ok, verbose, i) ==
    IF i > Len(IdOrder) THEN <<>>
    ELSE LET p == IdOrder[i]
             rest == InitializeLog(loaded, cfg, ok, verbose, i + 1)
         IN  IF Enabled(cfg, p) /\ p \notin loaded
             THEN IF verbose THEN <<[level |-> "warn", pluginId |-> p]>> \o rest ELSE rest
             ELSE IF Enabled(cfg, p) /\ p \notin ok
             THEN <<[level |-> "error", pluginId |-> p]>> \o rest
             ELSE rest

\* new PluginManager(db): options.verbose ?? true
Verbose == TRUE

PluginManagerInitialize ==
    /\ plugins = {}
    /\ batch.pc # "await"
    /\ plugins' = Loadable
    /\ \E bad \in SUBSET upstream.faulty :
       LET ok == {p \in Loadable : Enabled(config, p)} \ bad IN
          /\ initialized' = ok
          /\ pluginRows' = InitializeEnabledPlugins(Loadable, config, ok, pluginRows, now, 1)
          /\ last' = [Event("PluginManager.initialize", "", NoError)
                        EXCEPT !.steps = InitializeLog(Loadable, config, ok, Verbose, 1)]
    /\ UNCHANGED <<now, headlines, nextId, inflight, fetchCalls, batch, tasks, timers, running,
                   configVars, vaultVars, upstream, serviceVars>>

IdsOf(hs) == [i \in 1..Len(hs) |-> hs[i].id]

NoResults == [q \in {} |-> <<>>]

Put(f, k, v) == [q \in (DOMAIN f) \cup {k} |-> IF q = k THEN v ELSE f[q]]

\* The loop of fetchFromAllPlugins from one iteration to its next await (or its
\* end): a fetchFromPlugin that throws at once is caught and recorded as []
\* enabledPlugins is the list taken when the call began, queue what is left of it,
\* failed the plugins whose fetchFromPlugin threw (logged with console.error).
RECURSIVE BatchLoop(_, _, _, _, _, _)
BatchLoop(loaded, cfg, enabledPlugins, queue, results, failed) ==
    IF queue = <<>>
    THEN [pc |-> "done", cur |-> "", enabledPlugins |-> enabledPlugins, queue |-> <<>>,
          results |-> results, failed |-> failed]
    ELSE LET p == Head(queue) IN
         IF Precheck(loaded, cfg, p) # NoError
         THEN BatchLoop(loaded, cfg, enabledPlugins, Tail(queue),
                        Put(results, p, <<>>), failed \cup {p})
         ELSE [pc |-> "await", cur |-> p, enabledPlugins |-> enabledPlugins,
               queue |-> Tail(queue), results |-> results, failed |-> failed]

IdleBatch ==
    [pc |-> "idle", cur |-> "", enabledPlugins |-> <<>>, queue |-> <<>>,
     results |-> NoResults, failed |-> {}]

FetchFromAllPlugins ==
    /\ batch.pc # "await"
    /\ LET enabledPlugins == GetEnabledPlugins(plugins, config) IN
       /\ fetchCalls + Len(enabledPlugins) <= MaxFetches
       /\ batch' = BatchLoop(plugins, config, enabledPlugins, enabledPlugins, NoResults, {})
    /\ fetchCalls' = IF batch'.pc = "await" THEN fetchCalls + 1 ELSE fetchCalls
    /\ last' = Event("fetchFromAllPlugins", batch'.cur, NoError)
    /\ UNCHANGED <<plugins, initialized, now, headlines, pluginRows, nextId, inflight,
                   tasks, timers, running, configVars, vaultVars, upstream, serviceVars>>

\* The fetchFromPlugin awaited by the batch settles; the loop goes on
BatchFetchComplete ==
    /\ batch.pc = "await"
    /\ LET p == batch.cur IN
       \E out \in PluginAnswers(p, nextId, now) :
       \E pol \in PolicyAnswers(headlines, out) :
       \E res \in FetchOutcomes(headlines, pluginRows, p, out, pol, now) :
          /\ headlines' = res.rows
          /\ pluginRows' = res.runs
          /\ nextId' = NextIdAfter(nextId, out.headlines)
          /\ batch' = BatchLoop(plugins, config, batch.enabledPlugins, batch.queue,
                        Put(batch.results, p,
                            IF res.error = NoError THEN IdsOf(out.headlines) ELSE <<>>),
                        IF res.error = NoError THEN batch.failed ELSE batch.failed \cup {p})
          /\ last' = [op |-> "fetchDone", pluginId |-> p, error |-> res.error,
                      steps |-> res.steps, policy |-> pol, returned |-> out.headlines]
    /\ fetchCalls' = IF batch'.pc = "await" THEN fetchCalls + 1 ELSE fetchCalls
    /\ UNCHANGED <<plugins, initialized, now, inflight, tasks, timers, running,
                   configVars, vaultVars, upstream, serviceVars>>

----------------------------------------------------------------------------
\* The state after construction

PluginEntry(e, s) == [enabled |-> e, schedule |-> s]

\* Documents the service is started with: alpha enabled, ghost an enabled entry
\* without a plugin, beta enabled, disabled or without an entry
InitialConfigs ==
    { [feed |-> DefaultFeed, llm |-> DefaultLLM, threshold |-> Num(5),
       plugins |-> [q \in {"alpha", "ghost"} |-> PluginEntry(TRUE, "*/5")]],
      [feed |-> DefaultFeed, llm |-> DefaultLLM, threshold |-> Num(5),
       plugins |-> [q \in PluginIds |-> PluginEntry(q # "beta", "*/5")]],
      [feed |-> DefaultFeed, llm |-> DefaultLLM, threshold |-> Num(5),
       plugins |-> [q \in PluginIds |-> PluginEntry(TRUE, "*/5")]] }

\* new AuthManager(db): keychainAvailable = true, the probe is on its way
InitVault ==
    /\ keychain = [q \in {} |-> ""]
    /\ keychainOk = TRUE
    /\ keychainAvailable = TRUE
    /\ authRows = [q \in {} |-> ""]
    /\ probe = TRUE
    /\ stored = [q \in Loadable |-> <<>>]

\* new ServiceManager(): no server, the database open; no service process and
\* no marker file in the data directory
\* No start() is under way
NotStarting == [pc |-> "idle", steps |-> <<>>, rest |-> <<>>]

\* No handler runs and the process has not exited
NoSignals == [handlers |-> <<>>, exit |-> <<>>]

InitService ==
    /\ server = "null"
    /\ pidFile = <<>>
    /\ statusFile = <<>>
    /\ signalHandlers = FALSE
    /\ dbInstance = TRUE
    /\ foreign = [alive |-> FALSE, sigterm |-> FALSE]
    /\ stopCall = [pc |-> "idle", polls |-> 0, steps |-> <<>>]
    /\ startCall = NotStarting
    /\ signals = NoSignals
    /\ startedAt = <<>>

\* Everything but the documents and the data sources
Constructed ==
    /\ plugins = {}
    /\ initialized = {}
    /\ headlines = {}
    /\ now = StartTime
    /\ nextId = 1
    /\ inflight = [q \in PluginIds |-> 0]
    /\ fetchCalls = 0
    /\ batch = IdleBatch
    /\ tasks = NoTasks
    /\ timers = NoTimers
    /\ running = FALSE
    /\ watching = FALSE
    /\ debounceTimer = FALSE
    /\ timeouts = <<>>
    /\ reload = <<>>
    /\ InitVault
    /\ InitService
    /\ last = Event("constructed", "", NoError)

\* The orchestration: several plugins, timers, batches; sources that deliver
\* at most one headline per fetch, stamped with the time of the fetch
Init ==
    /\ Constructed
    /\ config \in InitialConfigs
    /\ file = [kind |-> "doc", doc |-> config]
    /\ pluginRows = [q \in {} |-> ""]
    /\ upstream = [len |-> 1, age |-> 0, faulty |-> {"beta"},
                   policies |-> {[type |-> "count", value |-> MaxKeep],
                                 [type |-> "unlimited", value |-> 0]}]

Next ==
    \/ PluginManagerInitialize
    \/ SchedulerStart
    \/ SchedulerStop
    \/ \E p \in PluginIds : CronFire(p)
    \/ \E p \in PluginIds : ManualFetch(p)
    \/ \E p \in PluginIds : FetchComplete(p)
    \/ FetchFromAllPlugins
    \/ BatchFetchComplete
    \/ \E p \in PluginIds : UpsertPluginConfig(p)

Spec == Init /\ [][Next]_vars

----------------------------------------------------------------------------
\* The pipeline of one plugin in detail: alpha is the only configured plugin,
\* with or without a plugin_configs row, and its source delivers lists of
\* headlines with any ids, dated at the fetch or the hour before, under any policy

AlphaOnly ==
    [feed |-> DefaultFeed, llm |-> DefaultLLM, threshold |-> Num(5), plugins |-> [q \in {"alpha"} |-> PluginEntry(TRUE, "*/5")]]

PipelineInit ==
    /\ Constructed
    /\ config = AlphaOnly
    /\ file = [kind |-> "doc", doc |-> config]
    /\ pluginRows \in {[q \in {} |-> ""],
                       [q \in {"alpha"} |-> [last_run |-> NullDate, last_error |-> NoError]]}
    /\ upstream = [len |-> MaxBatch, age |-> 1, faulty |-> {},
                   policies |-> RetentionPolicies \cup {PolicyThrows}]

PipelineNext ==
    \/ PluginManagerInitialize
    \/ \E p \in PluginIds : CliFetch(p)
    \/ \E p \in PluginIds : FetchComplete(p)
    \/ Tick

PipelineSpec == PipelineInit /\ [][PipelineNext]_vars

----------------------------------------------------------------------------
\* Hot reload: ConfigWatcher, ConfigManager.reload, the change handler that
\* ServiceManager.start installs

\* Scheduler.reschedulePlugin
ReschedulePlugin(S, run, p, schedule) ==
    IF ~run THEN S ELSE SchedulePlugin(S, p, schedule)

\* unschedulePlugin that leaves the task alone
UnschedulePluginNot(S, p) == S

\* Scheduler.unschedulePlugin
UnschedulePlugin(S, p) == StopTask(S, p)

\* the handler's loop over Object.entries(getFullConfig().plugins)
RECURSIVE RescheduleAll(_, _, _, _)
RescheduleAll(S, cfg, run, i) ==
    IF i > Len(IdOrder) THEN S
    ELSE LET p == IdOrder[i] IN
         IF ~HasConfig(cfg, p) THEN RescheduleAll(S, cfg, run, i + 1)
         ELSE IF cfg.plugins[p].enabled
         THEN RescheduleAll(ReschedulePlugin(S, run, p, cfg.plugins[p].schedule), cfg, run, i + 1)
         ELSE RescheduleAll(UnschedulePlugin(S, p), cfg, run, i + 1)

\* the plugins handleConfigReload shuts down: those loaded that have an entry
Reloaded(loaded, cfg) == {p \in loaded : HasConfig(cfg, p)}

\* PluginManager.handleConfigReload: an enabled plugin is shut down and
\* initialized again, a disabled one shut down; bad are the plugins whose
\* shutdown() or initialize() throws (caught and logged)
HandleConfigReload(loaded, cfg, init, bad) ==
    (init \ Reloaded(loaded, cfg))
        \cup {p \in Reloaded(loaded, cfg) : cfg.plugins[p].enabled /\ p \notin bad}

ShutdownOf(p)   == p \o ".shutdown"
InitializeOf(p) == p \o ".initialize"

\* handleConfigReload that initializes a plugin before it shuts it down
RECURSIVE ReloadCallsInitFirst(_, _, _, _, _)
ReloadCallsInitFirst(loaded, cfg, bad, at, i) ==
    IF i > Len(IdOrder) THEN <<>>
    ELSE LET p == IdOrder[i]
             rest == ReloadCallsInitFirst(loaded, cfg, bad, at, i + 1)
         IN  IF p \notin Reloaded(loaded, cfg) THEN rest
             ELSE IF ~cfg.plugins[p].enabled THEN <<ShutdownOf(p)>> \o rest
             ELSE <<InitializeOf(p), ShutdownOf(p)>> \o rest

\* handleConfigReload that gives up at the first plugin that throws
RECURSIVE ReloadCallsAbort(_, _, _, _, _)
ReloadCallsAbort(loaded, cfg, bad, at, i) ==
    IF i > Len(IdOrder) THEN <<>>
    ELSE LET p == IdOrder[i]
             rest == ReloadCallsAbort(loaded, cfg, bad, at, i + 1)
         IN  IF p \notin Reloaded(loaded, cfg) THEN rest
             ELSE IF p \in bad
             THEN IF ~cfg.plugins[p].enabled \/ at = "shutdown"
                  THEN <<ShutdownOf(p)>> ELSE <<ShutdownOf(p), InitializeOf(p)>>
             ELSE IF ~cfg.plugins[p].enabled THEN <<ShutdownOf(p)>> \o rest
             ELSE <<ShutdownOf(p), InitializeOf(p)>> \o rest

\* The calls handleConfigReload makes on the plugins, in their order: for each
\* entry of the configurations whose plugin is loaded, shutdown() and then
\* initialize(config) when the entry is enabled, shutdown() alone when it is
\* not.  A plugin of `bad` throws, from shutdown() or from initialize() as
\* `at` says; the catch block logs it and the loop goes on.
RECURSIVE ReloadCalls(_, _, _, _, _)
ReloadCalls(loaded, cfg, bad, at, i) ==
    IF i > Len(IdOrder) THEN <<>>
    ELSE LET p == IdOrder[i]
             rest == ReloadCalls(loaded, cfg, bad, at, i + 1)
         IN  IF p \notin Reloaded(loaded, cfg) THEN rest
             ELSE IF ~cfg.plugins[p].enabled THEN <<ShutdownOf(p)>> \o rest
             ELSE IF p \in bad /\ at = "shutdown" THEN <<ShutdownOf(p)>> \o rest
             ELSE <<ShutdownOf(p), InitializeOf(p)>> \o rest

Rejected == "Config validation failed"

DebounceMs == 500    \* ConfigWatcher.debounceMs
Quantum    == 250    \* the milliseconds that pass in one step of the clock

\* clearTimeout(this.debounceTimer): the newest timeout, if it is pending
ClearTimeout(tm) == IF tm = <<>> THEN tm ELSE SubSeq(tm, 1, Len(tm) - 1)

\* handleFileChange that sets a timeout without clearing the one before
HandleFileChangeKeeps(tm) == Append(tm, DebounceMs)

\* ConfigWatcher.handleFileChange: the pending timeout is cleared and one of
\* debounceMs is set
HandleFileChange(tm) == Append(ClearTimeout(tm), DebounceMs)

\* The timeouts after ms milliseconds
After(tm, ms) == [i \in 1..Len(tm) |-> tm[i] - ms]

Due(tm) == {i \in 1..Len(tm) : tm[i] <= 0}

\* ConfigWatcher.start
WatcherStart ==
    /\ ~watching
    /\ watching' = TRUE
    /\ last' = Event("ConfigWatcher.start", "", NoError)
    /\ UNCHANGED <<plugins, initialized, now, fetchVars, tasks, timers, running,
                   config, file, debounceTimer, timeouts, reload, vaultVars, serviceVars>>

\* ConfigWatcher.stop
WatcherStop ==
    /\ watching
    /\ watching' = FALSE
    /\ debounceTimer' = FALSE
    /\ timeouts' = ClearTimeout(timeouts)
    /\ last' = Event("ConfigWatcher.stop", "", NoError)
    /\ UNCHANGED <<plugins, initialized, now, fetchVars, tasks, timers, running,
                   config, file, reload, vaultVars, serviceVars>>

\* What an editor can leave in config.yaml: text js-yaml cannot parse, or a
\* document.  alpha's entry is absent, disabled, or enabled on any schedule;
\* beta's is absent, disabled or enabled; the threshold is 0.5 or the
\* out-of-range 1.5, and in one document a string.
Thresholds == {Num(5), Num(15)}

PluginMaps ==
    UNION { { m \in [D -> [enabled : BOOLEAN, schedule : Schedules]] :
                \A q \in D : (q = "beta" \/ ~m[q].enabled) => m[q].schedule = "*/5" }
            : D \in {{}, {"alpha"}, {"alpha", "beta"}} }

FileContents ==
    {[kind |-> "malformed"]}
    \cup {[kind |-> "doc", doc |-> [feed |-> DefaultFeed, llm |-> DefaultLLM, threshold |-> th, plugins |-> ps]]
          : th \in Thresholds, ps \in PluginMaps}
    \cup {[kind |-> "doc",
           doc |-> [feed |-> DefaultFeed, llm |-> DefaultLLM, threshold |-> Str(4),
                    plugins |-> [q \in {"alpha"} |-> PluginEntry(FALSE, "*/5")]]]}

\* The file is written and then left alone for the quiet window; a watcher
\* that is running gets 'change' (or 'add') and handleFileChange restarts the
\* debounce timer, which is due when the window has passed
WriteConfigFile(f) ==
    /\ f # file
    /\ file' = f
    /\ debounceTimer' = (watching \/ debounceTimer)
    /\ timeouts' = IF watching THEN After(HandleFileChange(timeouts), DebounceMs)
                   ELSE timeouts
    /\ last' = Event("write config.yaml", "", NoError)
    /\ UNCHANGED <<plugins, initialized, now, fetchVars, tasks, timers, running,
                   config, watching, reload, vaultVars, serviceVars>>

\* The file is removed: 'unlink' only logs
DeleteConfigFile ==
    /\ file.kind # "absent"
    /\ file' = [kind |-> "absent"]
    /\ last' = Event("unlink config.yaml", "", NoError)
    /\ UNCHANGED <<plugins, initialized, now, fetchVars, tasks, timers, running,
                   config, watching, debounceTimer, timeouts, reload, vaultVars,
                   serviceVars>>

RemoveAt(q, i) == SubSeq(q, 1, i - 1) \o SubSeq(q, i + 1, Len(q))

MaxPending == 1      \* change handlers awaiting handleConfigReload at one time

\* A debounce timer that is due fires: processConfigChange, and when the loaded document
\* validates the change handler up to its first await: configManager.reload()
\* and the configurations handleConfigReload reads.  With no plugin to reload
\* the handler runs on to its end.
ProcessConfigChange ==
    /\ debounceTimer
    /\ \E i \in Due(timeouts) :
          /\ timeouts' = RemoveAt(timeouts, i)
          /\ debounceTimer' = (timeouts' # <<>>)
    /\ LET newConfig == LoadConfig(file) IN
       IF ~ValidateConfig(newConfig)
       THEN /\ last' = Event("processConfigChange", "", Rejected)
            /\ UNCHANGED <<config, reload, tasks, timers>>
       ELSE /\ config' = LoadConfig(file)
            /\ last' = Event("processConfigChange", "", NoError)
            /\ IF Reloaded(plugins, config') = {}
               THEN /\ LET r == RescheduleAll(Sched(tasks, timers), config', running, 1) IN
                          tasks' = r.tasks /\ timers' = r.timers
                    /\ UNCHANGED reload
               ELSE /\ Len(reload) < MaxPending
                    /\ reload' = Append(reload, config')
                    /\ UNCHANGED <<tasks, timers>>
    /\ UNCHANGED <<plugins, initialized, now, fetchVars, running, file, watching, vaultVars, serviceVars>>

\* A pending change handler finishes: handleConfigReload's loop over the
\* configurations it read, then the reschedule loop over the configuration
\* that is current by then
ConfigReloadComplete ==
    /\ \E i \in 1..Len(reload) :
       \E bad \in SUBSET (Reloaded(plugins, reload[i]) \cap upstream.faulty) :
       \E at \in {"shutdown", "initialize"} :
          /\ initialized' = HandleConfigReload(plugins, reload[i], initialized, bad)
          /\ reload' = RemoveAt(reload, i)
          /\ last' = [Event("configReloaded", "", NoError)
                        EXCEPT !.steps = ReloadCalls(plugins, reload[i], bad, at, 1),
                               !.returned = <<reload[i]>>]
    /\ LET r == RescheduleAll(Sched(tasks, timers), config, running, 1) IN
          tasks' = r.tasks /\ timers' = r.timers
    /\ UNCHANGED <<plugins, now, fetchVars, running, config, file, watching,
                   debounceTimer, timeouts, vaultVars, serviceVars>>

\* A running service: alpha and beta enabled on */5, the file as loaded
ServiceConfig ==
    [feed |-> DefaultFeed, llm |-> DefaultLLM, threshold |-> Num(5), plugins |-> [q \in Loadable |-> PluginEntry(TRUE, "*/5")]]

ReloadInit ==
    /\ Constructed
    /\ config = ServiceConfig
    /\ file = [kind |-> "doc", doc |-> config]
    /\ pluginRows = [q \in {} |-> ""]
    /\ upstream = [len |-> 0, age |-> 0, faulty |-> {"beta"}, policies |-> {}]

ReloadNext ==
    \/ PluginManagerInitialize
    \/ SchedulerStart
    \/ WatcherStart
    \/ \E f \in FileContents : WriteConfigFile(f)
    \/ DeleteConfigFile
    \/ ProcessConfigChange
    \/ ConfigReloadComplete

ReloadSpec == ReloadInit /\ [][ReloadNext]_vars

\* Edits that enable or disable alpha and leave beta enabled, with a
\* threshold in or out of range, and text js-yaml cannot parse
SwitchEdits ==
    {[kind |-> "malformed"]}
    \cup {[kind |-> "doc",
           doc |-> [feed |-> DefaultFeed, llm |-> DefaultLLM, threshold |-> th,
                    plugins |-> [q \in Loadable |-> PluginEntry(q = "beta" \/ e, "*/5")]]]
          : th \in Thresholds, e \in BOOLEAN}

SwitchNext ==
    \/ PluginManagerInitialize
    \/ SchedulerStart
    \/ WatcherStart
    \/ \E f \in SwitchEdits : WriteConfigFile(f)
    \/ ProcessConfigChange
    \/ ConfigReloadComplete

\* A running service whose plugins can both fail
SwitchInit ==
    /\ Constructed
    /\ config = ServiceConfig
    /\ file = [kind |-> "doc", doc |-> config]
    /\ pluginRows = [q \in {} |-> ""]
    /\ upstream = [len |-> 0, age |-> 0, faulty |-> Loadable, policies |-> {}]

\* Plugins switched on and off by edits: the debounce timer fires once it is
\* due, and a handleConfigReload that is awaited settles
SwitchSpec ==
    /\ SwitchInit
    /\ [][SwitchNext]_vars
    /\ WF_vars(ProcessConfigChange)
    /\ WF_vars(ConfigReloadComplete)

----------------------------------------------------------------------------
\* ConfigManager: the preferences and their mutators

\* The preference paths of the model
Keys == {"feed.title", "importance.defaultThreshold", "llm.provider",
         "notifications.enabled"}

\* Values a caller sets
Values == {Str(9), Num(7)}

\* ConfigManager.getPreferences: feed, importance and llm of the document,
\* and notification settings that are always the same
GetPreferences(cfg) ==
    [feed |-> cfg.feed, threshold |-> cfg.threshold, llm |-> cfg.llm,
     notifications |-> [enabled |-> Num(0)]]

\* The walk of getPreference and setPreference along a path
ValueAt(prefs, key) ==
    CASE key = "feed.title"                  -> prefs.feed.title
      [] key = "importance.defaultThreshold" -> prefs.threshold
      [] key = "llm.provider"                -> prefs.llm.provider
      [] key = "notifications.enabled"       -> prefs.notifications.enabled

Assign(prefs, key, v) ==
    CASE key = "feed.title"                  -> [prefs EXCEPT !.feed.title = v]
      [] key = "importance.defaultThreshold" -> [prefs EXCEPT !.threshold = v]
      [] key = "llm.provider"                -> [prefs EXCEPT !.llm.provider = v]
      [] key = "notifications.enabled"       -> [prefs EXCEPT !.notifications.enabled = v]

\* ConfigManager.getPreference
GetPreference(cfg, key) == ValueAt(GetPreferences(cfg), key)

\* saveConfig: the YAML text of the document
SaveConfig(cfg) == [kind |-> "doc", doc |-> cfg]

\* ConfigManager.setPreferences: the document after it
SetPreferencesResult(cfg, prefs) ==
    [cfg EXCEPT !.feed = prefs.feed, !.threshold = prefs.threshold, !.llm = prefs.llm]

\* ConfigManager.setPreferences(prefs), prefs being the preferences read
\* before with some of them changed
SetPreferences(key, v) ==
    /\ config' = SetPreferencesResult(config, Assign(GetPreferences(config), key, v))
    /\ file' = SaveConfig(config')
    /\ last' = [Event("setPreferences", key, NoError) EXCEPT !.returned = <<v>>]
    /\ UNCHANGED <<plugins, initialized, now, fetchVars, tasks, timers, running,
                   watching, debounceTimer, timeouts, reload, vaultVars, serviceVars>>

\* ConfigManager.setPreference(path, value)
SetPreference(key, v) ==
    /\ config' = SetPreferencesResult(config, Assign(GetPreferences(config), key, v))
    /\ file' = SaveConfig(config')
    /\ last' = [Event("setPreference", key, NoError) EXCEPT !.returned = <<v>>]
    /\ UNCHANGED <<plugins, initialized, now, fetchVars, tasks, timers, running,
                   watching, debounceTimer, timeouts, reload, vaultVars, serviceVars>>

\* ConfigManager.setFeedConfig({title: v})
SetFeedConfig(v) ==
    /\ LET prefs == GetPreferences(config) IN
          config' = SetPreferencesResult(config,
                        [prefs EXCEPT !.feed = [title |-> v]])
    /\ file' = SaveConfig(config')
    /\ last' = [Event("setFeedConfig", "feed.title", NoError) EXCEPT !.returned = <<v>>]
    /\ UNCHANGED <<plugins, initialized, now, fetchVars, tasks, timers, running,
                   watching, debounceTimer, timeouts, reload, vaultVars, serviceVars>>

\* ConfigManager.setImportanceConfig({defaultThreshold: v})
SetImportanceConfig(v) ==
    /\ LET prefs == GetPreferences(config) IN
          config' = SetPreferencesResult(config, [prefs EXCEPT !.threshold = v])
    /\ file' = SaveConfig(config')
    /\ last' = [Event("setImportanceConfig", "importance.defaultThreshold", NoError)
                  EXCEPT !.returned = <<v>>]
    /\ UNCHANGED <<plugins, initialized, now, fetchVars, tasks, timers, running,
                   watching, debounceTimer, timeouts, reload, vaultVars, serviceVars>>

\* ConfigManager.setLLMConfig({provider: v})
SetLLMConfig(v) ==
    /\ LET prefs == GetPreferences(config) IN
          config' = SetPreferencesResult(config,
                        [prefs EXCEPT !.llm = [provider |-> v]])
    /\ file' = SaveConfig(config')
    /\ last' = [Event("setLLMConfig", "llm.provider", NoError) EXCEPT !.returned = <<v>>]
    /\ UNCHANGED <<plugins, initialized, now, fetchVars, tasks, timers, running,
                   watching, debounceTimer, timeouts, reload, vaultVars, serviceVars>>

\* ConfigManager.reload
Reload ==
    /\ config' = LoadConfig(file)
    /\ last' = Event("reload", "", NoError)
    /\ UNCHANGED <<plugins, initialized, now, fetchVars, tasks, timers, running,
                   file, watching, debounceTimer, timeouts, reload, vaultVars, serviceVars>>

PrefsNext ==
    \/ \E key \in Keys : \E v \in Values : SetPreference(key, v)
    \/ \E key \in Keys : \E v \in Values : SetPreferences(key, v)
    \/ \E v \in Values : SetFeedConfig(v)
    \/ \E v \in Values : SetImportanceConfig(v)
    \/ \E v \in Values : SetLLMConfig(v)
    \/ \E f \in SwitchEdits : WriteConfigFile(f)
    \/ Reload

PrefsSpec == ReloadInit /\ [][PrefsNext]_vars

----------------------------------------------------------------------------
\* The watcher with its clock: events of the file at any distance from each
\* other, and the debounce timer

\* The watcher gets 'change' (or 'add') for a write of the file
FileEvent(f) ==
    /\ f # file
    /\ file' = f
    /\ Due(timeouts) = {}
    /\ debounceTimer' = (watching \/ debounceTimer)
    /\ timeouts' = IF watching THEN HandleFileChange(timeouts) ELSE timeouts
    /\ last' = [Event("handleFileChange", "", NoError)
                  EXCEPT !.steps = IF ~watching THEN <<>>
                                   ELSE IF timeouts = <<>> THEN <<"setTimeout">>
                                   ELSE <<"clearTimeout", "setTimeout">>]
    /\ UNCHANGED <<plugins, initialized, now, fetchVars, tasks, timers, running,
                   config, watching, reload, vaultVars, serviceVars>>

\* Time passes while a timeout is pending and none is due (a timeout that is
\* due fires before the clock moves on)
Elapse ==
    /\ timeouts # <<>>
    /\ Due(timeouts) = {}
    /\ timeouts' = After(timeouts, Quantum)
    /\ last' = Event("elapse", "", NoError)
    /\ UNCHANGED <<plugins, initialized, now, fetchVars, tasks, timers, running,
                   config, file, watching, debounceTimer, reload, vaultVars, serviceVars>>

DebounceNext ==
    \/ WatcherStart
    \/ WatcherStop
    \/ \E f \in SwitchEdits : FileEvent(f)
    \/ Elapse
    \/ ProcessConfigChange
    \/ PluginManagerInitialize
    \/ ConfigReloadComplete

\* The clock moves on and a timeout that is due fires
DebounceSpec ==
    /\ ReloadInit
    /\ [][DebounceNext]_vars
    /\ WF_vars(Elapse)
    /\ WF_vars(ProcessConfigChange)
    /\ WF_vars(ConfigReloadComplete)

----------------------------------------------------------------------------
\* Plugin discovery

\* The members of the TopixPlugin interface
PluginMetadata == {"id", "name", "description", "version", "author"}
Methods  == {"initialize", "shutdown", "fetchHeadlines", "getConfigSchema",
             "validateConfig", "getAuthRequirements", "setAuthCredentials",
             "healthCheck", "getRetentionPolicy"}
TopixPlugin == PluginMetadata \cup Methods

\* The default export of a plugin file: the members it has, or an import
\* that throws
Candidates ==
    {[imports |-> TRUE, members |-> TopixPlugin \ drop]
       : drop \in {{}} \cup {{m} : m \in TopixPlugin}}
    \cup {[imports |-> FALSE, members |-> {}]}

\* The files of the built-in plugin directory, in readdirSync order; the file
\* at position i exports a plugin whose id is LoadOrder[i]
PluginFiles == [1..Len(LoadOrder) -> Candidates]

\* isValidPlugin
IsValidPlugin(plugin) ==
    {"id", "name", "description", "version",
     "initialize", "fetchHeadlines", "getConfigSchema"} \subseteq plugin.members

\* loadBuiltInPlugins: the plugins registered and the warnings and errors
\* written to the console
RECURSIVE LoadBuiltInPlugins(_, _, _, _)
LoadBuiltInPlugins(files, verbose, i, acc) ==
    IF i > Len(files) THEN acc
    ELSE LET plugin == files[i] IN
         IF ~plugin.imports
         THEN LoadBuiltInPlugins(files, verbose, i + 1,
                  [acc EXCEPT !.log = Append(@, [level |-> "error", file |-> i])])
         ELSE IF ~IsValidPlugin(plugin)
         THEN LoadBuiltInPlugins(files, verbose, i + 1,
                  IF verbose
                  THEN [acc EXCEPT !.log = Append(@, [level |-> "warn", file |-> i])]
                  ELSE acc)
         ELSE LoadBuiltInPlugins(files, verbose, i + 1,
                  [acc EXCEPT !.plugins = @ \cup {LoadOrder[i]}])

\* pluginManager.initialize({initializePlugins: false}): the built-in plugins
\* are loaded; there is no directory of user plugins
Discover ==
    /\ plugins = {}
    /\ last.op # "PluginManager.initialize"
    /\ LET r == LoadBuiltInPlugins(upstream.files, upstream.verbose, 1,
                                   [plugins |-> {}, log |-> <<>>])
       IN  /\ plugins' = r.plugins
           /\ last' = [Event("PluginManager.initialize", "", NoError)
                         EXCEPT !.steps = r.log]
    /\ UNCHANGED <<initialized, now, fetchVars, tasks, timers, running,
                   configVars, vaultVars, upstream, serviceVars>>

\* pluginManager.shutdown(): each plugin's shutdown() is called, a failure is
\* logged, and the map is cleared
PluginManagerShutdown ==
    /\ last.op = "PluginManager.initialize"
    /\ plugins' = {}
    /\ initialized' = {}
    /\ last' = [Event("PluginManager.shutdown", "", NoError) EXCEPT
                  !.steps = SelectSeq([i \in 1..Len(LoadOrder) |-> i],
                               LAMBDA i : /\ LoadOrder[i] \in plugins
                                          /\ "shutdown" \notin upstream.files[i].members)]
    /\ UNCHANGED <<now, fetchVars, tasks, timers, running,
                   configVars, vaultVars, upstream, serviceVars>>

DiscoveryInit ==
    /\ Constructed
    /\ config = GetDefaultConfig
    /\ file = [kind |-> "absent"]
    /\ pluginRows = [q \in {} |-> ""]
    /\ \E files \in PluginFiles : \E verbose \in BOOLEAN :
          upstream = [len |-> 0, age |-> 0, faulty |-> {}, policies |-> {},
                      files |-> files, verbose |-> verbose]

DiscoveryNext ==
    \/ Discover
    \/ PluginManagerShutdown

DiscoverySpec == DiscoveryInit /\ [][DiscoveryNext]_vars

----------------------------------------------------------------------------
\* The scheduler on its own: start, stop, reschedulePlugin and
\* unschedulePlugin called in any order, and timers that fire

InvalidCron == "Invalid cron schedule"

\* A caller invokes scheduler.reschedulePlugin(pluginId, schedule); the
\* warning of schedulePlugin is what the call logs
Reschedule(p, schedule) ==
    /\ LET r == ReschedulePlugin(Sched(tasks, timers), running, p, schedule) IN
          tasks' = r.tasks /\ timers' = r.timers
    /\ last' = Event("reschedulePlugin", p,
                     IF running /\ ~CronValidate(schedule) THEN InvalidCron ELSE NoError)
    /\ UNCHANGED <<plugins, initialized, now, fetchVars, running, configVars, vaultVars,
                   serviceVars>>

\* A caller invokes scheduler.unschedulePlugin(pluginId)
Unschedule(p) ==
    /\ LET r == UnschedulePlugin(Sched(tasks, timers), p) IN
          tasks' = r.tasks /\ timers' = r.timers
    /\ last' = Event("unschedulePlugin", p, NoError)
    /\ UNCHANGED <<plugins, initialized, now, fetchVars, running, configVars, vaultVars,
                   serviceVars>>

\* The plugins are loaded or not; sources deliver nothing
SchedulerInit ==
    /\ Constructed
    /\ config \in InitialConfigs
    /\ file = [kind |-> "doc", doc |-> config]
    /\ pluginRows = [q \in {} |-> ""]
    /\ upstream = [len |-> 0, age |-> 0, faulty |-> {},
                   policies |-> {[type |-> "unlimited", value |-> 0]}]

SchedulerNext ==
    \/ PluginManagerInitialize
    \/ SchedulerStart
    \/ SchedulerStop
    \/ \E p \in PluginIds : \E schedule \in Schedules : Reschedule(p, schedule)
    \/ \E p \in PluginIds : Unschedule(p)
    \/ \E p \in PluginIds : CronFire(p)
    \/ \E p \in PluginIds : FetchComplete(p)

SchedulerSpec == SchedulerInit /\ [][SchedulerNext]_vars

----------------------------------------------------------------------------
\* Credential vault: AuthManager over keytar and the auth table

\* JavaScript values of the fields of a credentials object.  A Date is held by
\* its instant, written as toISOString writes it.
Undefined   == [t |-> "undefined", v |-> <<>>]
StringOf(x) == [t |-> "string", v |-> x]
DateOf(k)   == [t |-> "date", v |-> ToISOString(k)]

\* new Date(isoString).getTime(): the instant an ISO string names
ParseDate(s) == s[1] * 10 + s[2]

\* `!x` is false: x is neither undefined nor the empty string
HasValueOrEmpty(x) == x.t # "undefined"

HasValue(x) == x.t # "undefined" /\ x.v # <<>>

\* Credentials a caller stores: an API key, an OAuth2 token with its expiry
Credentials ==
    { [type |-> "apikey", secret |-> StringOf(<<1>>), refreshToken |-> Undefined,
       expiresAt |-> Undefined, tokenUrl |-> Undefined],
      [type |-> "oauth2", secret |-> StringOf(<<2>>), refreshToken |-> StringOf(<<3>>),
       expiresAt |-> DateOf(MaxTime), tokenUrl |-> StringOf(<<9>>)] }

\* JSON.stringify of one value: a Date becomes the string of its toJSON
JsonValue(x) == IF x.t = "date" THEN StringOf(x.v) ELSE x

\* JSON.stringify(credentials): a JSON text, given by the object it denotes
JsonStringify(c) ==
    [kind  |-> "json",
     value |-> [type |-> c.type, secret |-> JsonValue(c.secret),
                refreshToken |-> JsonValue(c.refreshToken),
                expiresAt |-> JsonValue(c.expiresAt),
                tokenUrl |-> JsonValue(c.tokenUrl)]]

\* A payload that is not JSON ('invalid-json')
Malformed == [kind |-> "text", value |-> <<>>]

\* Whether JSON.parse returns (it throws a SyntaxError otherwise)
JsonParses(text) == text.kind = "json"

SyntaxError == "SyntaxError"

\* JSON.parse of a JSON text: the object it denotes
JsonParse(text) == text.value

\* { type: authType }: what the auth table gets when the keychain took the secret
Metadata(authType) ==
    [type |-> authType, secret |-> Undefined, refreshToken |-> Undefined,
     expiresAt |-> Undefined, tokenUrl |-> Undefined]

\* TopixDatabase.upsertAuth
UpsertAuth(rows, p, authType, c) ==
    Put(rows, p, [auth_type |-> authType, credentials |-> JsonStringify(c)])

\* TopixDatabase.getAuth: null (<<>>) without a row, else the parsed credentials
\* column; JSON.parse of a malformed column throws
GetAuth(rows, p) ==
    IF p \notin DOMAIN rows THEN [error |-> NoError, value |-> <<>>]
    ELSE IF ~JsonParses(rows[p].credentials) THEN [error |-> SyntaxError, value |-> <<>>]
    ELSE [error |-> NoError, value |-> <<JsonParse(rows[p].credentials)>>]

Remove(f, k) == [q \in (DOMAIN f) \ {k} |-> f[q]]

\* The calls an operation makes, as they appear in last.steps
KeytarCalls == {"keytar.setPassword", "keytar.getPassword", "keytar.deletePassword",
                "keytar.findCredentials"}

\* The constructor's probe settles: a rejection clears keychainAvailable
ProbeSettles ==
    /\ probe
    /\ probe' = FALSE
    /\ keychainAvailable' = (keychainAvailable /\ keychainOk)
    /\ last' = Event("checkKeychainAvailability", "", NoError)
    /\ UNCHANGED <<plugins, initialized, now, fetchVars, tasks, timers, running, configVars,
                   keychain, keychainOk, authRows, stored, serviceVars>>

\* The keychain starts or stops answering (it is locked, access is denied, ...)
KeychainToggles ==
    /\ keychainOk' = ~keychainOk
    /\ last' = Event("keychain", "", NoError)
    /\ UNCHANGED <<plugins, initialized, now, fetchVars, tasks, timers, running, configVars,
                   keychain, keychainAvailable, authRows, probe, stored, serviceVars>>

\* Something other than this program rewrites a keychain entry or the
\* credentials column of an auth row with text that is not JSON
CorruptKeychain(p) ==
    /\ keychain' = Put(keychain, p, Malformed)
    /\ stored' = [stored EXCEPT ![p] = <<>>]
    /\ last' = Event("keychain", p, NoError)
    /\ UNCHANGED <<plugins, initialized, now, fetchVars, tasks, timers, running, configVars,
                   keychainOk, keychainAvailable, authRows, probe, serviceVars>>

CorruptAuthRow(p) ==
    /\ p \in DOMAIN authRows
    /\ authRows' = [authRows EXCEPT ![p].credentials = Malformed]
    /\ stored' = [stored EXCEPT ![p] = <<>>]
    /\ last' = Event("auth", p, NoError)
    /\ UNCHANGED <<plugins, initialized, now, fetchVars, tasks, timers, running, configVars,
                   keychain, keychainOk, keychainAvailable, probe, serviceVars>>

\* storeCredentials that writes the whole credentials object to the auth table
\* whether or not the keychain took it
StoreResultFull(available, kc, rows, p, c) ==
    [keychain  |-> IF available /\ keychainOk THEN Put(kc, p, JsonStringify(c)) ELSE kc,
     authRows  |-> UpsertAuth(rows, p, c.type, c),
     available |-> available /\ keychainOk,
     primary   |-> available /\ keychainOk,
     steps     |-> (IF available THEN <<"keytar.setPassword">> ELSE <<>>) \o <<"db.upsertAuth">>]

\* AuthManager.storeCredentials on a manager whose flag is `available`, over
\* keychain entries kc and auth rows `rows`: what it leaves and the calls it makes
StoreResult(available, kc, rows, p, c) ==
    IF available /\ keychainOk
    THEN [keychain  |-> Put(kc, p, JsonStringify(c)),
          authRows  |-> UpsertAuth(rows, p, c.type, Metadata(c.type)),
          available |-> TRUE,
          primary   |-> TRUE,
          steps     |-> <<"keytar.setPassword", "db.upsertAuth">>]
    ELSE [keychain  |-> kc,
          authRows  |-> UpsertAuth(rows, p, c.type, c),
          available |-> FALSE,
          primary   |-> FALSE,
          steps     |-> (IF available THEN <<"keytar.setPassword">> ELSE <<>>)
                           \o <<"db.upsertAuth">>]

\* AuthManager.storeCredentials
StoreCredentials(p, c) ==
    LET s == StoreResult(keychainAvailable, keychain, authRows, p, c) IN
    /\ keychain' = s.keychain
    /\ authRows' = s.authRows
    /\ keychainAvailable' = s.available
    /\ stored' = [stored EXCEPT ![p] = <<[credentials |-> c, primary |-> s.primary]>>]
    /\ last' = [Event("storeCredentials", p, NoError) EXCEPT !.steps = s.steps]
    /\ UNCHANGED <<plugins, initialized, now, fetchVars, tasks, timers, running, configVars,
                   keychainOk, probe, serviceVars>>

\* AuthManager.getCredentials on a manager whose flag is `available`: what it
\* returns (<<>> for null) or throws, the calls it makes and the flag afterwards
GetCredentialsResult(available, p) ==
    LET fallback(steps, av) ==
            LET a == GetAuth(authRows, p) IN
            [error |-> a.error, value |-> a.value, available |-> av,
             steps |-> steps \o <<"db.getAuth">>]
    IN  IF ~available THEN fallback(<<>>, FALSE)
        ELSE IF ~keychainOk THEN fallback(<<"keytar.getPassword">>, FALSE)
        ELSE IF p \notin DOMAIN keychain THEN fallback(<<"keytar.getPassword">>, TRUE)
        ELSE IF ~JsonParses(keychain[p]) THEN fallback(<<"keytar.getPassword">>, FALSE)
        ELSE [error |-> NoError, value |-> <<JsonParse(keychain[p])>>, available |-> TRUE,
              steps |-> <<"keytar.getPassword">>]

GetCredentials(p) ==
    LET g == GetCredentialsResult(keychainAvailable, p) IN
    /\ keychainAvailable' = g.available
    /\ last' = [Event("getCredentials", p, g.error) EXCEPT !.returned = g.value,
                                                          !.steps = g.steps]
    /\ UNCHANGED <<plugins, initialized, now, fetchVars, tasks, timers, running, configVars,
                   keychain, keychainOk, authRows, probe, stored, serviceVars>>

\* deleteCredentials that asks the keychain whatever the flag says
DeleteCredentialsUnguarded(p) ==
    /\ keychain' = IF keychainOk THEN Remove(keychain, p) ELSE keychain
    /\ authRows' = Remove(authRows, p)
    /\ stored' = [stored EXCEPT ![p] = <<>>]
    /\ last' = [Event("deleteCredentials", p, NoError)
                   EXCEPT !.steps = <<"keytar.deletePassword", "db.deleteAuth">>]
    /\ UNCHANGED <<plugins, initialized, now, fetchVars, tasks, timers, running, configVars,
                   keychainOk, keychainAvailable, probe, serviceVars>>

\* AuthManager.deleteCredentials: a keychain failure is logged, the row goes
DeleteCredentials(p) ==
    /\ keychain' = IF keychainAvailable /\ keychainOk THEN Remove(keychain, p) ELSE keychain
    /\ authRows' = Remove(authRows, p)
    /\ stored' = [stored EXCEPT ![p] = <<>>]
    /\ last' = [Event("deleteCredentials", p, NoError)
                   EXCEPT !.steps = (IF keychainAvailable THEN <<"keytar.deletePassword">>
                                     ELSE <<>>) \o <<"db.deleteAuth">>]
    /\ UNCHANGED <<plugins, initialized, now, fetchVars, tasks, timers, running, configVars,
                   keychainOk, keychainAvailable, probe, serviceVars>>

\* The entries of a list operation, in the order of LoadOrder
RECURSIVE Listing(_, _)
Listing(f, order) ==
    IF order = <<>> THEN <<>>
    ELSE (IF Head(order) \in DOMAIN f
          THEN <<[pluginId |-> Head(order), authType |-> f[Head(order)]]>>
          ELSE <<>>) \o Listing(f, Tail(order))

\* TopixDatabase.getAllAuth: plugin_id and auth_type of every row
GetAllAuth(rows) == Listing([q \in DOMAIN rows |-> rows[q].auth_type], LoadOrder)

\* AuthManager.listCredentials: the keychain's entries with the type each
\* payload names; a rejected findCredentials or a payload that does not parse
\* clears the flag and the auth table answers
ListCredentials ==
    LET listed == keychainAvailable /\ keychainOk
                     /\ \A q \in DOMAIN keychain : JsonParses(keychain[q])
    IN  /\ keychainAvailable' = listed
        /\ last' = [Event("listCredentials", "", NoError)
                      EXCEPT !.returned =
                                 IF listed
                                 THEN Listing([q \in DOMAIN keychain |->
                                                   JsonParse(keychain[q]).type], LoadOrder)
                                 ELSE GetAllAuth(authRows),
                             !.steps = (IF keychainAvailable THEN <<"keytar.findCredentials">>
                                        ELSE <<>>)
                                       \o (IF listed THEN <<>> ELSE <<"db.getAllAuth">>)]
        /\ UNCHANGED <<plugins, initialized, now, fetchVars, tasks, timers, running, configVars,
                       keychain, keychainOk, authRows, probe, stored, serviceVars>>

VaultInit ==
    /\ Constructed
    /\ config = ServiceConfig
    /\ file = [kind |-> "doc", doc |-> config]
    /\ pluginRows = [q \in {} |-> ""]
    /\ upstream = [len |-> 0, age |-> 0, faulty |-> {}, policies |-> {}]

VaultNext ==
    \/ ProbeSettles
    \/ KeychainToggles
    \/ \E p \in Loadable : CorruptKeychain(p)
    \/ \E p \in Loadable : CorruptAuthRow(p)
    \/ \E p \in Loadable : \E c \in Credentials : StoreCredentials(p, c)
    \/ \E p \in Loadable : GetCredentials(p)
    \/ \E p \in Loadable : DeleteCredentials(p)
    \/ ListCredentials

VaultSpec == VaultInit /\ [][VaultNext]_vars

\* The vault with nobody but the AuthManager writing to it
SessionNext ==
    \/ ProbeSettles
    \/ KeychainToggles
    \/ \E p \in Loadable : \E c \in Credentials : StoreCredentials(p, c)
    \/ \E p \in Loadable : GetCredentials(p)
    \/ \E p \in Loadable : DeleteCredentials(p)
    \/ ListCredentials

SessionSpec == VaultInit /\ [][SessionNext]_vars

----------------------------------------------------------------------------
\* OAuth2 tokens: AuthManager.refreshOAuth2Token and validateOAuth2Token.
\* Here the clock counts minutes.

\* const fiveMinutes = 5 * 60 * 1000
FiveMinutes == 5

\* The plugin whose token is refreshed
TokenPlugin == "alpha"

\* OAuth2 credentials a caller stores: with a refresh token, an empty one or
\* none; without expiry, or expiring shortly after the start, a minute past
\* the five-minute margin, or two margins on; one lacks its token URL
Tokens ==
    { [type |-> "oauth2", secret |-> StringOf(<<2>>), refreshToken |-> r,
       expiresAt |-> e, tokenUrl |-> StringOf(<<9>>)] :
         r \in {Undefined, StringOf(<<>>), StringOf(<<3>>)},
         e \in {Undefined} \cup {DateOf(StartTime + d) :
                                   d \in {1, FiveMinutes + 1, 2 * FiveMinutes}} }
    \cup
    { [type |-> "oauth2", secret |-> StringOf(<<2>>), refreshToken |-> StringOf(<<3>>),
       expiresAt |-> DateOf(StartTime + 1), tokenUrl |-> Undefined] }

\* What the token endpoint answers: an error status, or a new access token
\* valid for two margins, with or without a new refresh token
Responses ==
    { [ok |-> FALSE, access_token |-> Undefined, refresh_token |-> Undefined,
       expires_in |-> 0] }
    \cup
    { [ok |-> TRUE, access_token |-> StringOf(<<4>>), refresh_token |-> r,
       expires_in |-> 2 * FiveMinutes] : r \in {Undefined, StringOf(<<5>>)} }

\* What refreshOAuth2Token and validateOAuth2Token leave when they store nothing
Untouched(g, err, ret, steps) ==
    [error |-> err, returned |-> ret, steps |-> steps, available |-> g.available,
     keychain |-> keychain, authRows |-> authRows, stored |-> stored]

\* AuthManager.refreshOAuth2Token on a manager whose flag is `available`, with
\* the token endpoint answering resp: what it returns (<<>> for null) or
\* throws, the calls it makes, and what it leaves
RefreshResult(available, p, resp) ==
    LET g == GetCredentialsResult(available, p) IN
    IF g.error # NoError THEN Untouched(g, g.error, <<>>, g.steps)
    ELSE IF g.value = <<>> THEN Untouched(g, NoError, <<>>, g.steps)
    ELSE IF g.value[1].type # "oauth2" THEN Untouched(g, NoError, <<>>, g.steps)
    ELSE
    LET oauth2Creds == g.value[1] IN
    IF ~HasValue(oauth2Creds.refreshToken) THEN Untouched(g, NoError, <<>>, g.steps)
    ELSE IF /\ HasValue(oauth2Creds.expiresAt)
            /\ ParseDate(oauth2Creds.expiresAt.v) - now > FiveMinutes
         THEN Untouched(g, NoError, <<oauth2Creds>>, g.steps)
    ELSE IF ~HasValue(oauth2Creds.tokenUrl) THEN Untouched(g, NoError, <<>>, g.steps)
    ELSE IF ~resp.ok THEN Untouched(g, NoError, <<>>, g.steps \o <<"fetch">>)
    ELSE
    LET updatedCredentials ==
            [oauth2Creds EXCEPT !.secret = resp.access_token,
                                !.refreshToken = IF HasValue(resp.refresh_token)
                                                 THEN resp.refresh_token
                                                 ELSE oauth2Creds.refreshToken,
                                !.expiresAt = DateOf(now + resp.expires_in)]
        s == StoreResult(g.available, keychain, authRows, p, updatedCredentials)
    IN  [error |-> NoError, returned |-> <<updatedCredentials>>,
         steps |-> g.steps \o <<"fetch">> \o s.steps,
         available |-> s.available, keychain |-> s.keychain, authRows |-> s.authRows,
         stored |-> [stored EXCEPT ![p] = <<[credentials |-> updatedCredentials,
                                             primary |-> s.primary]>>]]

\* AuthManager.validateOAuth2Token, likewise
ValidateResult(available, p, resp) ==
    LET g == GetCredentialsResult(available, p) IN
    IF g.error # NoError THEN Untouched(g, g.error, <<>>, g.steps)
    ELSE IF g.value = <<>> THEN Untouched(g, NoError, <<>>, g.steps)
    ELSE IF g.value[1].type # "oauth2" THEN Untouched(g, NoError, <<>>, g.steps)
    ELSE
    LET oauth2Creds == g.value[1] IN
    IF /\ HasValue(oauth2Creds.expiresAt)
       /\ ParseDate(oauth2Creds.expiresAt.v) <= now
    THEN LET r == RefreshResult(g.available, p, resp) IN
         [r EXCEPT !.steps = g.steps \o <<"refreshOAuth2Token">> \o r.steps]
    ELSE Untouched(g, NoError, <<oauth2Creds>>, g.steps)

RefreshOAuth2Token(p, resp) ==
    LET r == RefreshResult(keychainAvailable, p, resp) IN
    /\ keychainAvailable' = r.available
    /\ keychain' = r.keychain
    /\ authRows' = r.authRows
    /\ stored' = r.stored
    /\ last' = [Event("refreshOAuth2Token", p, r.error)
                   EXCEPT !.returned = r.returned, !.steps = r.steps]
    /\ UNCHANGED <<plugins, initialized, now, fetchVars, tasks, timers, running, configVars,
                   keychainOk, probe, serviceVars>>

ValidateOAuth2Token(p, resp) ==
    LET r == ValidateResult(keychainAvailable, p, resp) IN
    /\ keychainAvailable' = r.available
    /\ keychain' = r.keychain
    /\ authRows' = r.authRows
    /\ stored' = r.stored
    /\ last' = [Event("validateOAuth2Token", p, r.error)
                   EXCEPT !.returned = r.returned, !.steps = r.steps]
    /\ UNCHANGED <<plugins, initialized, now, fetchVars, tasks, timers, running, configVars,
                   keychainOk, probe, serviceVars>>

TokenNext ==
    \/ KeychainToggles
    \/ \E c \in Tokens : StoreCredentials(TokenPlugin, c)
    \/ \E resp \in Responses : RefreshOAuth2Token(TokenPlugin, resp)
    \/ \E resp \in Responses : ValidateOAuth2Token(TokenPlugin, resp)
    \/ Tick

TokenSpec == VaultInit /\ [][TokenNext]_vars

----------------------------------------------------------------------------
\* Service lifecycle: ServiceManager.start, stop, cleanup and isRunning, with
\* one other process that may run the service

MaxPolls == 2      \* checks the wait loop of stop() makes before its time is up

AlreadyRunning   == "Service is already running"
PortInUse        == "Port is already in use"
ServerNotRunning == "Server is not running"
DatabaseClosed   == "The database connection is not open"

Self  == "self"     \* process.pid
Other == "other"    \* the pid of the other process

\* process.pid.toString() and parseInt of the file's text
PidToString(pid) == [text |-> pid]
ParseInt(content) == content.text

Port == 3000        \* the port of the constructor

\* The content writeStatusFile gives the status file, t being startedAt
StatusOf(pid, t) ==
    [pid |-> pid, port |-> Port,
     startedAt |-> IF t = <<>> THEN <<>> ELSE ToISOString(t[1])]

\* process.kill(pid, 0) returns (it throws when no such process exists)
Exists(pid) == pid = Self \/ (pid = Other /\ foreign.alive)

\* isRunning that looks at this process's server alone
IsRunningInProcess(srv, pf) == [running |-> srv = "listening", pidFile |-> pf]

\* ServiceManager.isRunning: its answer, and the PID file it leaves (a file
\* naming a process that is gone is removed)
IsRunning(srv, pf) ==
    IF srv = "listening" THEN [running |-> TRUE, pidFile |-> pf]
    ELSE IF pf = <<>> THEN [running |-> FALSE, pidFile |-> pf]
    ELSE IF Exists(ParseInt(pf[1])) THEN [running |-> TRUE, pidFile |-> pf]
    ELSE [running |-> FALSE, pidFile |-> <<>>]

\* What start() and stop() work on, with the steps taken so far and the error
\* thrown, if any
Here ==
    [server |-> server, plugins |-> plugins, initialized |-> initialized,
     pluginRows |-> pluginRows, pidFile |-> pidFile, statusFile |-> statusFile,
     signalHandlers |-> signalHandlers, watching |-> watching,
     debounceTimer |-> debounceTimer, timeouts |-> timeouts, tasks |-> tasks, timers |-> timers,
     running |-> running,
     dbInstance |-> dbInstance, startedAt |-> startedAt,
     steps |-> <<>>, error |-> NoError]

\* The enabled loaded plugins initializeEnabledPlugins reaches before plugin q
Before(q) ==
    LET at(x) == CHOOSE i \in 1..Len(IdOrder) : IdOrder[i] = x
    IN  {x \in Loadable : at(x) < at(q)}

\* pluginManager.initialize(): the plugins are loaded and the enabled ones
\* initialized; those in `bad` fail, which updatePluginRun records, and on a
\* closed database updatePluginRun throws out of the catch block
PluginManagerInitializeStep(S, bad) ==
    LET enabled == {p \in Loadable : Enabled(config, p)}
        failing == enabled \cap bad
    IN  IF failing # {} /\ ~S.dbInstance
        THEN LET first == CHOOSE q \in failing : \A x \in failing : x \notin Before(q)
             IN  [S EXCEPT !.plugins = Loadable,
                           !.initialized = (enabled \ bad) \cap Before(first),
                           !.error = DatabaseClosed]
        ELSE [S EXCEPT !.plugins = Loadable,
                       !.initialized = enabled \ bad,
                       !.pluginRows = InitializeEnabledPlugins(Loadable, config, enabled \ bad,
                                                               S.pluginRows, now, 1)]

\* One step of start(), stop() or cleanup() on S.  env tells whether the port
\* can be bound and which plugins fail to initialize.
Step(S, step, env) ==
    CASE step = "pluginManager.initialize" -> PluginManagerInitializeStep(S, env.bad)
      [] step = "app.listen" ->
            IF env.listenOk THEN [S EXCEPT !.server = "listening", !.startedAt = <<now>>]
            ELSE [S EXCEPT !.server = "closed", !.error = PortInUse]
      [] step = "writePidFile"  -> [S EXCEPT !.pidFile = <<PidToString(Self)>>]
      [] step = "writeStatusFile" -> [S EXCEPT !.statusFile = <<StatusOf(Self, S.startedAt)>>]
      [] step = "setupSignalHandlers" -> [S EXCEPT !.signalHandlers = TRUE]
      [] step = "configWatcher.start" -> [S EXCEPT !.watching = TRUE]
      [] step = "scheduler.start" ->
            IF S.running THEN S
            ELSE LET r == ScheduleEnabled(Sched(S.tasks, S.timers), config, 1) IN
                 [S EXCEPT !.tasks = r.tasks, !.timers = r.timers, !.running = TRUE]
      [] step = "server.close" ->
            IF S.server = "listening" THEN [S EXCEPT !.server = "null"]
            ELSE [S EXCEPT !.error = ServerNotRunning]
      [] step = "removeSignalHandlers" -> [S EXCEPT !.signalHandlers = FALSE]
      [] step = "configWatcher.stop" -> 
            [S EXCEPT !.watching = FALSE, !.debounceTimer = FALSE,
                      !.timeouts = ClearTimeout(S.timeouts)]
      [] step = "scheduler.stop" ->
            IF ~S.running THEN S
            ELSE LET r == StopAll(Sched(S.tasks, S.timers), 1) IN
                 [S EXCEPT !.tasks = r.tasks, !.timers = r.timers, !.running = FALSE]
      [] step = "pluginManager.shutdown" -> [S EXCEPT !.plugins = {}, !.initialized = {}]
      [] step = "closeDatabase" -> [S EXCEPT !.dbInstance = FALSE]
      [] step = "removePidFile" -> [S EXCEPT !.pidFile = <<>>]
      [] step = "removeStatusFile" -> [S EXCEPT !.statusFile = <<>>]

\* The steps in their order, up to the first that throws
RECURSIVE Run(_, _, _)
Run(S, steps, env) ==
    IF steps = <<>> \/ S.error # NoError THEN S
    ELSE Run(Step([S EXCEPT !.steps = Append(@, Head(steps))], Head(steps), env),
             Tail(steps), env)

\* start() with the listener bound before the plugins are initialized
StartStepsListenFirst ==
    <<"app.listen", "pluginManager.initialize", "writePidFile", "writeStatusFile",
      "setupSignalHandlers", "configWatcher.start", "scheduler.start">>

\* start() with the scheduler started before the plugins are initialized
StartStepsSchedulerFirst ==
    <<"scheduler.start", "pluginManager.initialize", "app.listen", "writePidFile",
      "writeStatusFile", "setupSignalHandlers", "configWatcher.start">>

\* The try block of start()
StartSteps ==
    <<"pluginManager.initialize", "app.listen", "writePidFile", "writeStatusFile",
      "setupSignalHandlers", "configWatcher.start", "scheduler.start">>

\* cleanup() with the marker files removed first
CleanupStepsFilesFirst ==
    <<"removePidFile", "removeStatusFile", "removeSignalHandlers", "configWatcher.stop",
      "scheduler.stop", "pluginManager.shutdown", "closeDatabase">>

\* cleanup()
CleanupSteps ==
    <<"removeSignalHandlers", "configWatcher.stop", "scheduler.stop",
      "pluginManager.shutdown", "closeDatabase", "removePidFile", "removeStatusFile">>

NoEnv == [listenOk |-> TRUE, bad |-> {}]

Cleanup(S) == [Run(S, CleanupSteps, NoEnv) EXCEPT !.startedAt = <<>>]

\* start() once isRunning() has answered false: the try block, and in the
\* catch block cleanup() before the error is thrown again
StartResult(S, env) ==
    LET r == Run(S, StartSteps, env) IN
    IF r.error = NoError THEN r
    ELSE [Cleanup([r EXCEPT !.error = NoError]) EXCEPT !.error = r.error]

\* stop() in the process that holds a server: close it, then cleanup()
StopResult(S) ==
    LET r == Run(S, <<"server.close">>, NoEnv) IN
    IF r.error = NoError THEN Cleanup(r) ELSE r

\* The state after start() or stop(), r being its result
Becomes(r) ==
    /\ server' = r.server
    /\ plugins' = r.plugins
    /\ initialized' = r.initialized
    /\ pluginRows' = r.pluginRows
    /\ pidFile' = r.pidFile
    /\ statusFile' = r.statusFile
    /\ signalHandlers' = r.signalHandlers
    /\ watching' = r.watching
    /\ debounceTimer' = r.debounceTimer
    /\ timeouts' = r.timeouts
    /\ tasks' = r.tasks
    /\ timers' = r.timers
    /\ running' = r.running
    /\ dbInstance' = r.dbInstance
    /\ startedAt' = r.startedAt

\* ServiceManager.start
Start ==
    /\ stopCall.pc = "idle"
    /\ startCall.pc = "idle"
    /\ LET check == IsRunning(server, pidFile) IN
       IF check.running
       THEN /\ last' = Event("start", "", AlreadyRunning)
            /\ Becomes(Here)
       ELSE \E listenOk \in BOOLEAN : \E bad \in SUBSET upstream.faulty :
               LET r == StartResult([Here EXCEPT !.pidFile = check.pidFile],
                                    [listenOk |-> listenOk /\ ~foreign.alive, bad |-> bad])
               IN  /\ Becomes(r)
                   /\ last' = [Event("start", "", r.error) EXCEPT !.steps = r.steps]
    /\ UNCHANGED <<signals, now, headlines, nextId, inflight, fetchCalls, batch, upstream,
                   config, file, reload, vaultVars, foreign, stopCall, startCall>>

\* What new Date(text) makes of the status file's startedAt
ParseStartedAt(text) == IF text = <<>> THEN <<>> ELSE <<ParseDate(text)>>

\* readStatusFile: the parsed content, or null
ReadStatusFile(sf) == IF sf = <<>> THEN <<>> ELSE sf

\* ServiceManager.getStatus without the statistics: the status it returns and
\* the PID file isRunning() leaves
GetStatusResult(srv, pf, sf, started) ==
    LET check == IsRunning(srv, pf)
        none  == [running |-> check.running, pid |-> <<>>, port |-> <<>>, startedAt |-> <<>>]
        read  == ReadStatusFile(sf)
    IN  [pidFile |-> check.pidFile,
         status |->
            IF ~check.running THEN none
            ELSE IF started # <<>>
            THEN [none EXCEPT !.pid = <<Self>>, !.port = <<Port>>, !.startedAt = started]
            ELSE IF read # <<>>
            THEN [none EXCEPT !.pid = <<read[1].pid>>, !.port = <<read[1].port>>,
                              !.startedAt = ParseStartedAt(read[1].startedAt)]
            ELSE none]

\* ServiceManager.getStatus
GetStatus ==
    LET r == GetStatusResult(server, pidFile, statusFile, startedAt) IN
    /\ pidFile' = r.pidFile
    /\ last' = [Event("getStatus", "", NoError)
                  EXCEPT !.returned = r.status,
                         !.steps = IF r.pidFile = pidFile THEN <<>> ELSE <<"removePidFile">>]
    /\ UNCHANGED <<signals, plugins, initialized, now, fetchVars, tasks, timers, running, configVars,
                   vaultVars, server, statusFile, signalHandlers, dbInstance, foreign,
                   stopCall, startCall, startedAt>>

\* The wait of stop() is over after MaxPolls checks
WaitOverAtOnce(polls) == TRUE

WaitOver(polls) == polls >= MaxPolls

\* stop() in a process without a server, from the check that ends its wait
\* (the process is gone, or the time is up): a process that still exists is
\* killed and the call sleeps once more, otherwise the marker files go
StopEscalates(steps) ==
    IF foreign.alive
    THEN /\ foreign' = [foreign EXCEPT !.alive = FALSE]
         /\ stopCall' = [pc |-> "forced", polls |-> 0, steps |-> Append(steps, "SIGKILL")]
         /\ UNCHANGED startCall
         /\ last' = [Event("stop", Other, NoError) EXCEPT !.steps = Append(steps, "SIGKILL")]
         /\ UNCHANGED <<pidFile, statusFile>>
    ELSE /\ stopCall' = [pc |-> "idle", polls |-> 0, steps |-> <<>>]
         /\ UNCHANGED startCall
         /\ pidFile' = <<>>
         /\ statusFile' = <<>>
         /\ last' = [Event("stop", Other, NoError)
                       EXCEPT !.steps = steps \o <<"removePidFile", "removeStatusFile">>]
         /\ UNCHANGED foreign

\* One turn of the wait loop, and what follows the loop when it ends
StopPolls(polls, steps) ==
    IF ~WaitOver(polls) /\ foreign.alive
    THEN /\ stopCall' = [pc |-> "poll", polls |-> polls + 1, steps |-> steps]
         /\ UNCHANGED startCall
         /\ last' = [Event("stop", Other, NoError) EXCEPT !.steps = steps]
         /\ UNCHANGED <<pidFile, statusFile, foreign>>
    ELSE StopEscalates(steps)

\* ServiceManager.stop, up to its return or its first sleep
Stop ==
    /\ stopCall.pc = "idle"
    /\ startCall.pc = "idle"
    /\ IF server # "null"
       THEN LET r == StopResult(Here) IN
            /\ Becomes(r)
            /\ last' = [Event("stop", Self, r.error) EXCEPT !.steps = r.steps]
            /\ UNCHANGED <<foreign, stopCall, startCall>>
       ELSE /\ UNCHANGED <<server, plugins, initialized, pluginRows, signalHandlers,
                           watching, debounceTimer, timeouts, tasks, timers, running,
                           dbInstance, startedAt>>
            /\ IF pidFile = <<>>
               THEN /\ last' = Event("stop", "", NoError)
                    /\ UNCHANGED <<pidFile, statusFile, foreign, stopCall, startCall>>
               ELSE IF ~Exists(ParseInt(pidFile[1]))
               THEN /\ pidFile' = <<>>
                    /\ statusFile' = <<>>
                    /\ last' = [Event("stop", "", NoError)
                                  EXCEPT !.steps = <<"removePidFile", "removeStatusFile">>]
                    /\ UNCHANGED <<foreign, stopCall, startCall>>
               ELSE /\ ParseInt(pidFile[1]) = Other
                    /\ foreign' = [foreign EXCEPT !.sigterm = TRUE]
                    /\ stopCall' = [pc |-> "poll", polls |-> 1, steps |-> <<"SIGTERM">>]
                    /\ UNCHANGED startCall
                    /\ last' = [Event("stop", Other, NoError) EXCEPT !.steps = <<"SIGTERM">>]
                    /\ UNCHANGED <<pidFile, statusFile>>
    /\ UNCHANGED <<signals, now, headlines, nextId, inflight, fetchCalls, batch, upstream,
                   config, file, reload, vaultVars>>

\* stop() wakes from a sleep of its wait loop
StopWakes ==
    /\ stopCall.pc = "poll"
    /\ StopPolls(stopCall.polls, stopCall.steps)
    /\ UNCHANGED <<signals, plugins, initialized, now, fetchVars, tasks, timers, running, configVars,
                   vaultVars, server, signalHandlers, dbInstance, startedAt>>

\* stop() wakes from the sleep after SIGKILL and removes the marker files
StopReturns ==
    /\ stopCall.pc = "forced"
    /\ stopCall' = [pc |-> "idle", polls |-> 0, steps |-> <<>>]
    /\ UNCHANGED startCall
    /\ pidFile' = <<>>
    /\ statusFile' = <<>>
    /\ last' = [Event("stop", Other, NoError)
                  EXCEPT !.steps = stopCall.steps \o <<"removePidFile", "removeStatusFile">>]
    /\ UNCHANGED <<signals, plugins, initialized, now, fetchVars, tasks, timers, running, configVars,
                   vaultVars, server, signalHandlers, dbInstance, foreign, startedAt>>

\* The service is started in the other process (its own start() found no
\* service running): it holds the port and writes the marker files
OtherStarts ==
    /\ stopCall.pc = "idle"
    /\ ~foreign.alive
    /\ server # "listening"
    /\ foreign' = [alive |-> TRUE, sigterm |-> FALSE]
    /\ pidFile' = <<PidToString(Other)>>
    /\ statusFile' = <<StatusOf(Other, <<now>>)>>
    /\ last' = Event("process", Other, NoError)
    /\ UNCHANGED <<signals, plugins, initialized, now, fetchVars, tasks, timers, running, configVars,
                   vaultVars, server, signalHandlers, dbInstance, stopCall, startCall, startedAt>>

\* The other process shuts down in its signal handler: its stop() removes the
\* marker files and it exits
OtherExits ==
    /\ foreign.alive
    /\ foreign.sigterm
    /\ foreign' = [alive |-> FALSE, sigterm |-> FALSE]
    /\ pidFile' = <<>>
    /\ statusFile' = <<>>
    /\ last' = Event("process", Other, NoError)
    /\ UNCHANGED <<signals, plugins, initialized, now, fetchVars, tasks, timers, running, configVars,
                   vaultVars, server, signalHandlers, dbInstance, stopCall, startCall, startedAt>>

\* The other process dies without a shutdown: the marker files stay
OtherDies ==
    /\ foreign.alive
    /\ foreign' = [alive |-> FALSE, sigterm |-> FALSE]
    /\ last' = Event("process", Other, NoError)
    /\ UNCHANGED <<signals, plugins, initialized, now, fetchVars, tasks, timers, running, configVars,
                   vaultVars, server, pidFile, statusFile, signalHandlers, dbInstance,
                   stopCall, startCall, startedAt>>

ServiceInit ==
    /\ Constructed
    /\ config \in InitialConfigs
    /\ file = [kind |-> "doc", doc |-> config]
    /\ pluginRows = [q \in Loadable |-> [last_run |-> NullDate, last_error |-> NoError]]
    /\ upstream = [len |-> 0, age |-> 0, faulty |-> {"beta"}, policies |-> {}]

ServiceNext ==
    \/ Start
    \/ Stop
    \/ StopWakes
    \/ StopReturns
    \/ OtherStarts
    \/ OtherExits
    \/ OtherDies
    \/ GetStatus

ServiceSpec == ServiceInit /\ [][ServiceNext]_vars

----------------------------------------------------------------------------
\* start() with its awaits: between the call of pluginManager.initialize() or
\* app.listen() and its return, timers fire and other calls run

\* The steps of start() that are awaited
Awaited == {"pluginManager.initialize", "app.listen"}

\* The steps start() takes before it next awaits
RECURSIVE UntilAwait(_)
UntilAwait(steps) ==
    IF steps = <<>> \/ Head(steps) \in Awaited THEN <<>>
    ELSE <<Head(steps)>> \o UntilAwait(Tail(steps))

\* What is left of steps after its first n
Rest(steps, n) == SubSeq(steps, n + 1, Len(steps))

\* start() from its call to its first await
StartBegins ==
    /\ stopCall.pc = "idle"
    /\ startCall.pc = "idle"
    /\ LET check == IsRunning(server, pidFile) IN
       IF check.running
       THEN /\ last' = Event("start", "", AlreadyRunning)
            /\ Becomes(Here)
            /\ UNCHANGED startCall
       ELSE LET sync == UntilAwait(StartSteps)
                r == Run([Here EXCEPT !.pidFile = check.pidFile], sync, NoEnv)
            IN  /\ Becomes(r)
                /\ startCall' = [pc |-> "await", steps |-> r.steps,
                                 rest |-> Rest(StartSteps, Len(sync))]
                /\ last' = [Event("start.await", "", NoError) EXCEPT !.steps = r.steps]
    /\ UNCHANGED <<signals, now, headlines, nextId, inflight, fetchCalls, batch, upstream,
                   config, file, reload, vaultVars, foreign, stopCall>>

\* start() from the return of the call it awaited to its next await, its
\* return or its throw (after cleanup())
StartResumes ==
    /\ startCall.pc = "await"
    /\ \E listenOk \in BOOLEAN : \E bad \in SUBSET upstream.faulty :
       LET after == Tail(startCall.rest)
           sync == UntilAwait(after)
           left == Rest(after, Len(sync))
           r == Run([Here EXCEPT !.steps = startCall.steps],
                    <<Head(startCall.rest)>> \o sync,
                    [listenOk |-> listenOk /\ ~foreign.alive, bad |-> bad])
       IN  IF r.error # NoError
           THEN LET c == [Cleanup([r EXCEPT !.error = NoError]) EXCEPT !.error = r.error]
                IN  /\ Becomes(c)
                    /\ startCall' = NotStarting
                    /\ last' = [Event("start", "", c.error) EXCEPT !.steps = c.steps]
           ELSE /\ Becomes(r)
                /\ startCall' = IF left = <<>> THEN NotStarting
                                ELSE [pc |-> "await", steps |-> r.steps, rest |-> left]
                /\ last' = [Event(IF left = <<>> THEN "start" ELSE "start.await", "", NoError)
                              EXCEPT !.steps = r.steps]
    /\ UNCHANGED <<signals, now, headlines, nextId, inflight, fetchCalls, batch, upstream,
                   config, file, reload, vaultVars, foreign, stopCall>>

\* Some plugins are enabled; beta's initialize() can fail; sources deliver nothing
StartupInit ==
    /\ Constructed
    /\ config \in InitialConfigs
    /\ file = [kind |-> "doc", doc |-> config]
    /\ pluginRows = [q \in Loadable |-> [last_run |-> NullDate, last_error |-> NoError]]
    /\ upstream = [len |-> 0, age |-> 0, faulty |-> {"beta"},
                   policies |-> {[type |-> "unlimited", value |-> 0]}]

StartupNext ==
    \/ StartBegins
    \/ StartResumes
    \/ Stop
    \/ \E p \in PluginIds : CronFire(p)
    \/ \E p \in PluginIds : FetchComplete(p)

StartupSpec == StartupInit /\ [][StartupNext]_vars

----------------------------------------------------------------------------
\* Hot reload with its awaits: the change handler and the reload route wait
\* for each plugin.shutdown() and plugin.initialize(); timers fire, requests
\* arrive and the watcher's timeout runs while they wait.  Here an element of
\* `reload` is a handler in progress: the configurations it read, and the
\* plugin calls it has still to make, the first of them being awaited.

MaxHandlers == 2     \* handlers (change or route) awaiting a plugin at one time

Handler(kind, p, cfg, calls) ==
    [kind |-> kind, pluginId |-> p, cfg |-> cfg, calls |-> calls]

\* what a settled plugin call leaves of the initialized plugins
AfterCall(init, call) ==
    (init \ {p \in PluginIds : call = ShutdownOf(p)})
        \cup {p \in PluginIds : call = InitializeOf(p)}

\* PluginManager.reinitializePlugin: await plugin.shutdown(), then
\* await plugin.initialize(config)
ReinitializeCalls(p) == <<ShutdownOf(p), InitializeOf(p)>>

\* The reload route after reinitializePlugin: reschedulePlugin(pluginId,
\* pluginConfig.schedule) with the entry read when the request arrived
RouteReschedules(S, run, h) ==
    ReschedulePlugin(S, run, h.pluginId, h.cfg.plugins[h.pluginId].schedule)

\* The debounce timeout fires: processConfigChange and, for a document that
\* validates, the change handler up to its first await.  configManager.reload()
\* replaces the configuration, handleConfigReload reads the plugin
\* configurations and awaits the first plugin.shutdown(); with no loaded plugin
\* among the entries the handler runs on to its end.
ChangeHandlerBegins ==
    /\ debounceTimer
    /\ \E i \in Due(timeouts) :
          /\ timeouts' = RemoveAt(timeouts, i)
          /\ debounceTimer' = (timeouts' # <<>>)
    /\ LET newConfig == LoadConfig(file) IN
       IF ~ValidateConfig(newConfig)
       THEN /\ last' = Event("processConfigChange", "", Rejected)
            /\ UNCHANGED <<config, reload, tasks, timers>>
       ELSE /\ config' = LoadConfig(file)
            /\ last' = Event("processConfigChange", "", NoError)
            /\ LET calls == ReloadCalls(plugins, config', {}, "initialize", 1) IN
               IF calls = <<>>
               THEN /\ LET r == RescheduleAll(Sched(tasks, timers), config', running, 1) IN
                          tasks' = r.tasks /\ timers' = r.timers
                    /\ UNCHANGED reload
               ELSE /\ Len(reload) < MaxHandlers
                    /\ reload' = Append(reload, Handler("change", "", config', calls))
                    /\ UNCHANGED <<tasks, timers>>
    /\ UNCHANGED <<plugins, initialized, now, fetchVars, running, file, watching, vaultVars, serviceVars>>

\* POST /api/plugins/:id/reload up to its first await: 404 without an entry,
\* 500 when reinitializePlugin throws, else plugin.shutdown() is awaited
PostReload(p) ==
    /\ server = "listening"
    /\ IF ~HasConfig(config, p)
       THEN /\ last' = Event("POST reload", p, "has no configuration")
            /\ UNCHANGED reload
       ELSE IF p \notin plugins
       THEN /\ last' = Event("POST reload", p, NotFound)
            /\ UNCHANGED reload
       ELSE /\ Len(reload) < MaxHandlers
            /\ reload' = Append(reload, Handler("route", p, config, ReinitializeCalls(p)))
            /\ last' = Event("POST reload", p, NoError)
    /\ UNCHANGED <<plugins, initialized, now, fetchVars, tasks, timers, running, config,
                   file, watching, debounceTimer, timeouts, vaultVars, serviceVars>>

\* The plugin call a handler awaits settles and the handler goes on to its next
\* await or to its end: the change handler's loop over the configuration that
\* is current by then, the route's reschedulePlugin
HandlerResumes ==
    /\ \E i \in 1..Len(reload) :
          LET h    == reload[i]
              rest == Tail(h.calls)
              S    == Sched(tasks, timers)
              r    == IF rest # <<>> THEN S
                      ELSE IF h.kind = "change" THEN RescheduleAll(S, config, running, 1)
                      ELSE RouteReschedules(S, running, h)
          IN  /\ initialized' = AfterCall(initialized, Head(h.calls))
              /\ reload' = IF rest # <<>> THEN [reload EXCEPT ![i].calls = rest]
                           ELSE RemoveAt(reload, i)
              /\ tasks' = r.tasks
              /\ timers' = r.timers
              /\ last' = [Event(IF rest # <<>> THEN "pluginCall"
                                ELSE IF h.kind = "change" THEN "configReloaded"
                                ELSE "pluginReloaded", h.pluginId, NoError)
                            EXCEPT !.steps = <<Head(h.calls)>>, !.returned = <<h.cfg>>]
    /\ UNCHANGED <<plugins, now, fetchVars, running, config, file, watching,
                   debounceTimer, timeouts, vaultVars, serviceVars>>

\* Edits of a running service's file: alpha's entry enabled, disabled or
\* removed, beta's left as it is
HotEdits ==
    {[kind |-> "doc",
      doc |-> [feed |-> DefaultFeed, llm |-> DefaultLLM, threshold |-> Num(5),
               plugins |-> ps]]
     : ps \in {[q \in Loadable |-> PluginEntry(q = "beta" \/ e, "*/5")] : e \in BOOLEAN}
              \cup {[q \in {"beta"} |-> PluginEntry(TRUE, "*/5")]}}

HotReloadInit ==
    /\ Constructed
    /\ config = ServiceConfig
    /\ file = [kind |-> "doc", doc |-> config]
    /\ pluginRows = [q \in Loadable |-> [last_run |-> NullDate, last_error |-> NoError]]
    /\ upstream = [len |-> 0, age |-> 0, faulty |-> {},
                   policies |-> {[type |-> "unlimited", value |-> 0]}]

\* The plugin whose entry the edits change: the one requests and timers are
\* followed for
Edited == {"alpha"}

HotReloadNext ==
    \/ Start
    \/ \E f \in HotEdits : WriteConfigFile(f)
    \/ ChangeHandlerBegins
    \/ \E p \in Edited : PostReload(p)
    \/ HandlerResumes
    \/ \E p \in Edited : CronFire(p)
    \/ \E p \in Edited : FetchComplete(p)

HotReloadSpec == HotReloadInit /\ [][HotReloadNext]_vars

----------------------------------------------------------------------------
\* Shutdown on a signal: the handler that setupSignalHandlers installs awaits
\* stop() and then calls process.exit; stop() awaits the close of the listener
\* and, in cleanup(), the watcher and the plugins.  Signals arrive and timers
\* fire while it waits.

MaxSignals == 2      \* signals the installed handlers receive in one run

\* exit status of a process ended by the default action of SIGTERM (signal 15)
Killed == 128 + 15

\* The steps of stop() and cleanup() that are awaited
AwaitedInStop == {"server.close", "configWatcher.stop", "pluginManager.shutdown"}

\* stop() in the process that holds the server
StopSteps == <<"server.close">> \o CleanupSteps

\* The steps stop() takes before it next awaits
RECURSIVE UntilAwaited(_)
UntilAwaited(steps) ==
    IF steps = <<>> \/ Head(steps) \in AwaitedInStop THEN <<>>
    ELSE <<Head(steps)>> \o UntilAwaited(Tail(steps))

\* server.close(callback): the callback gets an error from a server that is
\* not listening, when 'close' is emitted
ServerClose(srv) == IF srv = "listening" THEN NoError ELSE ServerNotRunning

\* SIGTERM or SIGINT with the handlers installed: the handler calls stop(),
\* which calls server.close() and waits for its callback
SignalArrives ==
    /\ signals.exit = <<>>
    /\ signalHandlers
    /\ server # "null"
    /\ Len(signals.handlers) < MaxSignals
    /\ signals' = [signals EXCEPT !.handlers =
                      Append(@, [rest |-> StopSteps, error |-> ServerClose(server)])]
    /\ server' = "closed"
    /\ last' = [Event("signal", "", NoError) EXCEPT !.steps = <<"server.close">>]
    /\ UNCHANGED <<plugins, initialized, now, fetchVars, tasks, timers, running, configVars,
                   vaultVars, pidFile, statusFile, signalHandlers, dbInstance, foreign,
                   stopCall, startCall, startedAt>>

\* The call a handler's stop() awaits returns.  When close reported an error
\* stop() throws and the handler calls process.exit(1); else stop() goes on to
\* its next await, or returns and the handler calls process.exit(0).  The
\* callbacks of close run in the order of the calls.
SignalHandlerResumes ==
    /\ \E i \in 1..Len(signals.handlers) :
          LET h     == signals.handlers[i]
              after == Tail(h.rest)
              sync  == UntilAwaited(after)
              left  == Rest(after, Len(sync))
              S0    == IF Head(h.rest) = "server.close" THEN [Here EXCEPT !.server = "null"]
                       ELSE Step(Here, Head(h.rest), NoEnv)
              r     == Run(S0, sync, NoEnv)
          IN  /\ Head(h.rest) = "server.close"
                 => \A j \in 1..(i - 1) : Head(signals.handlers[j].rest) # "server.close"
              /\ IF h.error # NoError
                 THEN /\ signals' = [handlers |-> <<>>, exit |-> <<1>>]
                      /\ Becomes(Here)
                      /\ last' = Event("process.exit", "", h.error)
                 ELSE IF left = <<>>
                 THEN /\ signals' = [handlers |-> <<>>, exit |-> <<0>>]
                      /\ Becomes([r EXCEPT !.startedAt = <<>>])
                      /\ last' = [Event("process.exit", "", NoError) EXCEPT !.steps = r.steps]
                 ELSE /\ signals' = [signals EXCEPT !.handlers[i].rest = left]
                      /\ Becomes(r)
                      /\ last' = [Event("stop.await", "", NoError) EXCEPT !.steps = r.steps]
    /\ UNCHANGED <<now, headlines, nextId, inflight, fetchCalls, batch, upstream,
                   config, file, reload, vaultVars, foreign, stopCall, startCall>>

\* SIGTERM or SIGINT after removeSignalHandlers, with a shutdown in progress:
\* no listener is left and the signal ends the process
SignalKills ==
    /\ ~signalHandlers
    /\ signals.handlers # <<>>
    /\ signals' = [handlers |-> <<>>, exit |-> <<Killed>>]
    /\ last' = Event("killed", "", NoError)
    /\ UNCHANGED <<plugins, initialized, now, fetchVars, tasks, timers, running, configVars,
                   vaultVars, server, pidFile, statusFile, signalHandlers, dbInstance, foreign,
                   stopCall, startCall, startedAt>>

SignalInit ==
    /\ Constructed
    /\ config \in InitialConfigs
    /\ file = [kind |-> "doc", doc |-> config]
    /\ pluginRows = [q \in Loadable |-> [last_run |-> NullDate, last_error |-> NoError]]
    /\ upstream = [len |-> 0, age |-> 0, faulty |-> {},
                   policies |-> {[type |-> "unlimited", value |-> 0]}]

\* Nothing runs in a process that has exited
Alive == signals.exit = <<>>

AliveStart == Alive /\ Start

AliveCronFire(p) == Alive /\ CronFire(p)

AliveFetchComplete(p) == Alive /\ FetchComplete(p)

SignalNext ==
    \/ AliveStart
    \/ SignalArrives
    \/ SignalHandlerResumes
    \/ SignalKills
    \/ \E p \in PluginIds : AliveCronFire(p)
    \/ \E p \in PluginIds : AliveFetchComplete(p)

SignalSpec == SignalInit /\ [][SignalNext]_vars

----------------------------------------------------------------------------
\* Properties of the fetch pipeline and the orchestration

RowsReturned(hs) == {Row(hs[i]) : i \in 1..Len(hs)}

MinOf(a, b) == IF a < b THEN a ELSE b

\* C1: at most one fetch per plugin is in flight at any time: a trigger for a
\* plugin whose previous fetch is still awaiting its source is skipped, not
\* run concurrently.
C1_AtMostOneInFlight ==
    \A p \in PluginIds : InFlight(p) <= 1

\* C2: when a fetch of a plugin whose policy is count(N) completes, the plugin
\* owns at most N stored headlines, and they are the N most recent by
\* publication time of those it owned before plus those the fetch returned
\* (all of them if there are fewer than N).
C2_CountRetention ==
    [][ (last'.op = "fetchDone" /\ last'.error = NoError /\ last'.policy.type = "count") =>
        LET p     == last'.pluginId
            N     == last'.policy.value
            cand  == RowsOf(headlines, p) \cup RowsReturned(last'.returned)
            kept  == RowsOf(headlines', p)
        IN  /\ Cardinality(kept) <= N
            /\ kept \subseteq cand
            /\ Cardinality(kept) = MinOf(N, Cardinality(cand))
            /\ \A k \in kept : \A r \in cand \ kept : ~IsoLess(k.pub_date, r.pub_date)
            /\ headlines' \ kept = headlines \ RowsOf(headlines, p)
      ]_vars

\* A fetch under count(N) that returned more than N headlines and left N >= 1,
\* having dropped an older one
C2_Witness ==
    /\ last.op = "fetchDone" /\ last.error = NoError
    /\ last.policy.type = "count" /\ last.policy.value >= 1
    /\ Len(last.returned) > last.policy.value
    /\ Cardinality(RowsOf(headlines, last.pluginId)) = last.policy.value
    /\ \E h \in RowsReturned(last.returned) :
          h \notin headlines /\ \A k \in RowsOf(headlines, last.pluginId) : IsoLess(h.pub_date, k.pub_date)

\* C3: when a fetch of a plugin whose policy is duration(H) completes, no
\* stored headline of the plugin has a publication time older than the time of
\* the fetch minus H hours.
C3_DurationRetention ==
    (last.op = "fetchDone" /\ last.error = NoError /\ last.policy.type = "duration") =>
        \A r \in RowsOf(headlines, last.pluginId) :
            ~IsoLess(r.pub_date, ToISOString(now - last.policy.value))

\* C4: fetchFromPlugin on an id without a loaded plugin fails with "not found",
\* on a loaded plugin whose configuration is missing or disabled with the
\* distinct "not enabled"; in both cases the plugin's fetchHeadlines is not
\* called and the headlines table is left as it was.
C4_Rejected ==
    [][ last'.op = "fetchFromPlugin" =>
        LET p == last'.pluginId
            untouched == /\ fetchCalls' = fetchCalls
                         /\ inflight' = inflight
                         /\ headlines' = headlines
        IN  /\ NotFound # NotEnabled
            /\ p \notin plugins => (last'.error = NotFound /\ untouched)
            /\ (p \in plugins /\ (~HasConfig(config, p) \/ ~config.plugins[p].enabled))
                  => (last'.error = NotEnabled /\ untouched)
      ]_vars

\* fetchFromPlugin was refused for a loaded plugin without a configuration
\* entry while headlines are stored
C4_Witness ==
    /\ last.op = "fetchFromPlugin" /\ last.error = NotEnabled
    /\ last.pluginId \in plugins /\ ~HasConfig(config, last.pluginId)
    /\ headlines # {}

C6_ErrorRecorded ==
    (last.op = "fetchDone" /\ last.error # NoError) =>
        /\ last.pluginId \in DOMAIN pluginRows
        /\ pluginRows[last.pluginId].last_error = last.error

\* C7: fetchFromAllPlugins calls fetchFromPlugin for every enabled loaded plugin
\* whatever the others do, and its result has one entry per enabled plugin
\* which tells whether that plugin's fetch succeeded or failed.
C7_ResultRecordsOutcome ==
    batch.pc = "done" =>
        /\ DOMAIN batch.results = {batch.enabledPlugins[i] : i \in 1..Len(batch.enabledPlugins)}
        /\ \A p \in batch.failed : \A q \in (DOMAIN batch.results) \ batch.failed :
              batch.results[p] # batch.results[q]

\* Content that fails structural validation: a document whose
\* importance.defaultThreshold is not a number between 0 and 1
FailsValidation(f) ==
    /\ f.kind = "doc"
    /\ \/ f.doc.threshold.type # "number"
       \/ f.doc.threshold.value < 0
       \/ f.doc.threshold.value > 10

\* C8: when the file has settled to content that fails structural validation,
\* the change handler is not invoked and the in-memory configuration, the
\* scheduled plugins with their schedules and the initialized state of every
\* plugin are what they were.
C8_InvalidKeepsState ==
    [][ (last'.op = "processConfigChange" /\ FailsValidation(file)) =>
            /\ last'.error = Rejected
            /\ reload' = reload
            /\ config' = config
            /\ tasks' = tasks
            /\ running' = running
            /\ initialized' = initialized
      ]_vars

\* A document with an invalid threshold and other plugin settings than those
\* in force was rejected while plugins were initialized and scheduled
C8_Witness ==
    /\ last.op = "processConfigChange" /\ last.error = Rejected
    /\ FailsValidation(file)
    /\ file.doc.plugins # config.plugins
    /\ initialized # {}
    /\ DOMAIN tasks # {}

\* C9: after a settled change to a file that cannot be parsed, the previous
\* in-memory configuration is kept and no plugin is reinitialized, rescheduled
\* or unscheduled.
C9_MalformedKeepsConfig ==
    [][ (last'.op = "processConfigChange" /\ file.kind = "malformed") =>
            /\ config' = config
            /\ reload' = reload
            /\ tasks' = tasks
            /\ initialized' = initialized
      ]_vars

\* C10: credentials stored while the keychain was available and read later
\* while the keychain fails are returned through the fallback, equal field
\* for field to what was stored.
C10_FallbackReturnsStored ==
    [][ \A p \in Loadable :
          (/\ last'.op = "getCredentials" /\ last'.pluginId = p
           /\ stored[p] # <<>> /\ stored[p][1].primary
           /\ ~keychainOk)
          => last'.returned = <<stored[p][1].credentials>>
      ]_vars

----------------------------------------------------------------------------
\* Properties of the credential vault

VaultOps == {"storeCredentials", "getCredentials", "deleteCredentials", "listCredentials"}

CallsKeytar(steps) == \E i \in 1..Len(steps) : steps[i] \in KeytarCalls

\* C11: once keychainAvailable is false it stays false, and no store, get,
\* delete or list that begins afterwards calls keytar or changes a keychain
\* entry.
C11_OneWay ==
    [][ ~keychainAvailable =>
            /\ ~keychainAvailable'
            /\ last'.op \in VaultOps =>
                  /\ ~CallsKeytar(last'.steps)
                  /\ keychain' = keychain
      ]_vars

\* A store went to the auth table alone, without a keytar call, although the
\* keychain was answering again and still holds an entry
C11_Witness ==
    /\ ~keychainAvailable /\ keychainOk
    /\ last.op = "storeCredentials"
    /\ last.steps = <<"db.upsertAuth">>
    /\ keychain # <<>>

\* C12: after storeCredentials(p, c) the auth row of p names c's type; when the
\* keychain write succeeded the keychain holds c and the row's credentials
\* carry the type and nothing else (no secret, refresh token, expiry or token
\* URL); when it failed or was not attempted the row's credentials are all of c.
C12_MetadataOnly ==
    [][ last'.op = "storeCredentials" =>
        LET p   == last'.pluginId
            c   == stored'[p][1].credentials
            row == authRows'[p]
            doc == JsonParse(row.credentials)
        IN  /\ p \in DOMAIN authRows'
            /\ row.auth_type = c.type
            /\ JsonParses(row.credentials)
            /\ doc.type = c.type
            /\ (keychainAvailable /\ keychainOk) =>
                  /\ keychain'[p] = JsonStringify(c)
                  /\ doc.secret = Undefined /\ doc.refreshToken = Undefined
                  /\ doc.expiresAt = Undefined /\ doc.tokenUrl = Undefined
            /\ ~(keychainAvailable /\ keychainOk) =>
                  /\ keychain' = keychain
                  /\ doc.secret = c.secret /\ doc.secret # Undefined
                  /\ doc.refreshToken = c.refreshToken
                  /\ doc.expiresAt = JsonValue(c.expiresAt)
                  /\ doc.tokenUrl = c.tokenUrl
      ]_vars

\* One plugin's OAuth2 token was taken by the keychain and its row holds the
\* type alone; the other's was then stored while the keychain failed and its
\* row holds the secret
C12_Witness ==
    /\ last.op = "storeCredentials" /\ last.pluginId = "beta"
    /\ stored["beta"] # <<>> /\ ~stored["beta"][1].primary
    /\ JsonParse(authRows["beta"].credentials).secret = StringOf(<<2>>)
    /\ stored["alpha"] # <<>> /\ stored["alpha"][1].primary
    /\ "alpha" \in DOMAIN authRows
    /\ authRows["alpha"].credentials = JsonStringify(Metadata("oauth2"))
    /\ JsonParse(keychain["alpha"]).secret = StringOf(<<2>>)

\* C15: getCredentials(p), when what is held for p is malformed (a keychain
\* entry or an auth row that is not JSON, and no well-formed payload in the
\* other place), returns null and does not throw.
C15_MalformedIsNotFound ==
    [][ \A p \in Loadable :
          LET kcBad  == p \in DOMAIN keychain /\ ~JsonParses(keychain[p])
              rowBad == p \in DOMAIN authRows /\ ~JsonParses(authRows[p].credentials)
          IN  (/\ last'.op = "getCredentials" /\ last'.pluginId = p
               /\ kcBad \/ rowBad
               /\ kcBad \/ p \notin DOMAIN keychain
               /\ rowBad \/ p \notin DOMAIN authRows)
              => (last'.error = NoError /\ last'.returned = <<>>)
      ]_vars

Calls(steps, call) == \E i \in 1..Len(steps) : steps[i] = call

\* C13: validateOAuth2Token on a stored OAuth2 credential with an expiry
\* returns it as it is, without calling refreshOAuth2Token, exactly when the
\* expiry lies more than five minutes ahead; in every other case it calls
\* refreshOAuth2Token.
C13_ValidateMargin ==
    [][ last'.op = "validateOAuth2Token" =>
        LET g == GetCredentialsResult(keychainAvailable, last'.pluginId) IN
        (/\ g.error = NoError /\ g.value # <<>>
         /\ g.value[1].type = "oauth2"
         /\ g.value[1].expiresAt # Undefined) =>
            LET c     == g.value[1]
                fresh == ParseDate(c.expiresAt.v) - now > FiveMinutes
            IN  /\ fresh <=> ~Calls(last'.steps, "refreshOAuth2Token")
                /\ fresh => last'.returned = <<c>>
      ]_vars

\* C14: refreshOAuth2Token on a stored OAuth2 credential whose refresh token is
\* missing or empty returns null without a request to the token endpoint and
\* without a write to the keychain or the auth table; a refresh that obtained
\* a new token passes it to storeCredentials, so that it is in the keychain
\* when the keychain is in use and answers, and in the auth table otherwise.
C14_RefreshFailsClosed ==
    [][ last'.op = "refreshOAuth2Token" =>
        LET p == last'.pluginId
            g == GetCredentialsResult(keychainAvailable, p)
        IN
        (g.error = NoError /\ g.value # <<>> /\ g.value[1].type = "oauth2") =>
            LET c == g.value[1] IN
            /\ c.refreshToken \in {Undefined, StringOf(<<>>)} =>
                  /\ last'.error = NoError /\ last'.returned = <<>>
                  /\ ~Calls(last'.steps, "fetch")
                  /\ ~Calls(last'.steps, "keytar.setPassword")
                  /\ ~Calls(last'.steps, "db.upsertAuth")
                  /\ keychain' = keychain /\ authRows' = authRows
            /\ (Calls(last'.steps, "fetch") /\ last'.returned # <<>>) =>
                  LET u == last'.returned[1] IN
                  /\ u.secret = StringOf(<<4>>)
                  /\ Calls(last'.steps, "db.upsertAuth")
                  /\ IF g.available /\ keychainOk
                     THEN /\ keychainAvailable'
                          /\ keychain'[p] = JsonStringify(u)
                     ELSE /\ ~keychainAvailable'
                          /\ keychain' = keychain
                          /\ authRows'[p].credentials = JsonStringify(u)
      ]_vars

\* A credential with an empty refresh token, expired and with its token URL,
\* was read from the auth table and refused without any further call, after an
\* earlier refresh had put a new token into the keychain
C14_Witness ==
    /\ last.op = "refreshOAuth2Token" /\ last.returned = <<>>
    /\ last.steps = <<"db.getAuth">>
    /\ TokenPlugin \in DOMAIN authRows
    /\ JsonParse(authRows[TokenPlugin].credentials).refreshToken = StringOf(<<>>)
    /\ JsonParse(authRows[TokenPlugin].credentials).tokenUrl # Undefined
    /\ JsonParse(authRows[TokenPlugin].credentials).expiresAt # Undefined
    /\ ParseDate(JsonParse(authRows[TokenPlugin].credentials).expiresAt.v) <= now
    /\ TokenPlugin \in DOMAIN keychain
    /\ JsonParse(keychain[TokenPlugin]).secret = StringOf(<<4>>)

----------------------------------------------------------------------------
\* Properties of the service lifecycle

\* What start() and stop() of this controller can change
Lifecycle ==
    <<server, plugins, initialized, pluginRows, pidFile, statusFile, signalHandlers,
      watching, debounceTimer, timeouts, tasks, timers, running, dbInstance, foreign,
      startedAt>>

\* C16: start(), when this process's server is listening or the PID file names
\* a process that exists, throws "Service is already running" and changes
\* nothing: no listener, no plugin loaded or initialized, no marker file
\* written or removed.
C16_AlreadyRunning ==
    [][ (/\ last'.op = "start"
         /\ \/ server = "listening"
            \/ pidFile # <<>> /\ Exists(ParseInt(pidFile[1])))
        => /\ last'.error = AlreadyRunning
           /\ last'.steps = <<>>
           /\ Lifecycle' = Lifecycle
      ]_vars

\* start() was refused in a process without a server because the PID file
\* names the other process, which lives
C16_Witness ==
    /\ last.op = "start" /\ last.error = AlreadyRunning
    /\ server = "null" /\ plugins = {}
    /\ foreign.alive
    /\ pidFile = <<PidToString(Other)>>
    /\ statusFile = <<StatusOf(Other, <<now>>)>>

\* C17 as stated: a successful start() binds the listener, then initializes
\* the plugins, then writes the marker files, installs the signal handlers,
\* starts the watcher and starts the scheduler.
C17_StartOrder ==
    [][ (last'.op = "start" /\ last'.error = NoError) =>
            last'.steps = <<"app.listen", "pluginManager.initialize", "writePidFile",
                            "writeStatusFile", "setupSignalHandlers",
                            "configWatcher.start", "scheduler.start">>
      ]_vars

\* C17 amended: a successful start() initializes the plugins, then binds the
\* listener, then writes the PID and the status file, installs the signal
\* handlers, starts the watcher and starts the scheduler, which schedules the
\* enabled plugins; a start() that cannot bind the port has initialized the
\* plugins before (a failed initialize is on record) and has written no file.
C17_StartOrderAmended ==
    [][ last'.op = "start" =>
        /\ last'.error = NoError =>
              /\ last'.steps = <<"pluginManager.initialize", "app.listen", "writePidFile",
                                 "writeStatusFile", "setupSignalHandlers",
                                 "configWatcher.start", "scheduler.start">>
              /\ plugins' = Loadable
              /\ server' = "listening"
              /\ pidFile' = <<PidToString(Self)>> /\ statusFile' = <<StatusOf(Self, <<now>>)>>
              /\ signalHandlers' /\ watching' /\ running'
              /\ tasks' = ScheduleEnabled(Sched(NoTasks, NoTimers), config, 1).tasks
        /\ last'.error = PortInUse =>
              /\ SubSeq(last'.steps, 1, 2) = <<"pluginManager.initialize", "app.listen">>
              /\ \A i \in 1..Len(last'.steps) :
                    last'.steps[i] \notin {"writePidFile", "writeStatusFile"}
              /\ \E bad \in SUBSET upstream.faulty :
                    pluginRows' = InitializeEnabledPlugins(Loadable, config,
                                      {p \in Loadable : Enabled(config, p)} \ bad,
                                      pluginRows, now, 1)
      ]_vars

\* The service started although beta failed to initialize: the failure is on
\* record, the server listens, the marker files name this process and alpha
\* is scheduled
C17_Witness ==
    /\ last.op = "start" /\ last.error = NoError
    /\ server = "listening"
    /\ pluginRows["beta"].last_error = InitFailed
    /\ initialized = {"alpha"}
    /\ pidFile = <<PidToString(Self)>>
    /\ running /\ watching /\ "alpha" \in DOMAIN tasks

\* C18: stop() in the process whose server listens closes the server, then
\* stops the watcher, the scheduler, the plugins and the database in this
\* order, then removes the PID file and the status file; afterwards there is
\* no server, no marker file, and isRunning() is false.
C18_StopOrder ==
    [][ (last'.op = "stop" /\ server = "listening") =>
           /\ last'.error = NoError
           /\ SelectSeq(last'.steps, LAMBDA st : st # "removeSignalHandlers")
                 = <<"server.close", "configWatcher.stop", "scheduler.stop",
                     "pluginManager.shutdown", "closeDatabase",
                     "removePidFile", "removeStatusFile">>
           /\ server' = "null"
           /\ ~watching' /\ ~running' /\ tasks' = NoTasks
           /\ plugins' = {} /\ initialized' = {}
           /\ ~dbInstance'
           /\ pidFile' = <<>> /\ statusFile' = <<>>
           /\ ~IsRunning(server', pidFile').running
      ]_vars

\* The service was stopped in its own process: the server was closed first
\* and nothing of the running service is left
C18_Witness ==
    /\ last.op = "stop" /\ last.pluginId = Self /\ last.error = NoError
    /\ last.steps[1] = "server.close"
    /\ last.steps[Len(last.steps)] = "removeStatusFile"
    /\ server = "null" /\ pidFile = <<>> /\ statusFile = <<>>
    /\ plugins = {} /\ ~running /\ ~watching /\ ~dbInstance

\* C19: whatever start() and stop() calls came before, stop() does not throw,
\* and when it has returned isRunning() is false.
C19_StopNeverThrows ==
    [][ last'.op = "stop" =>
           /\ last'.error = NoError
           /\ stopCall'.pc = "idle" => (server' # "listening" /\ pidFile' = <<>>)
      ]_vars

C21_Status ==
    [][ last'.op = "getStatus" =>
          /\ (/\ server # "listening"
              /\ pidFile # <<>> /\ ~Exists(ParseInt(pidFile[1]))) =>
                /\ ~last'.returned.running
                /\ pidFile' = <<>>
                /\ statusFile' = <<>>
          /\ server = "listening" =>
                /\ startedAt # <<>>
                /\ last'.returned = [running |-> TRUE, pid |-> <<Self>>,
                                     port |-> <<Port>>, startedAt |-> startedAt]
      ]_vars

----------------------------------------------------------------------------
\* Properties of the scheduler

\* C22 as stated: reschedulePlugin(id, schedule) with an invalid expression
\* logs the warning and leaves the Map and every timer as they were; with a
\* valid expression the plugin has one timer afterwards, on the new schedule.
C22_Reschedule ==
    [][ \A p \in PluginIds : \A schedule \in Schedules :
          Reschedule(p, schedule) =>
             IF ~CronValidate(schedule)
             THEN /\ last'.error = InvalidCron
                  /\ tasks' = tasks /\ timers' = timers
             ELSE /\ p \in DOMAIN tasks' /\ tasks'[p] = schedule
                  /\ timers'[<<p, schedule>>] = 1
      ]_vars

\* C22 amended: on a started scheduler reschedulePlugin(id, schedule) with an
\* invalid expression logs the warning and leaves the Map and every timer as
\* they were, and with a valid expression the plugin has one timer afterwards,
\* on the new schedule, the other plugins' timers being untouched; on a
\* scheduler that is not started the call changes nothing and logs no warning.
C22_RescheduleAmended ==
    [][ \A p \in PluginIds : \A schedule \in Schedules :
          Reschedule(p, schedule) =>
             IF ~running
             THEN /\ last'.error = NoError
                  /\ tasks' = tasks /\ timers' = timers
             ELSE IF ~CronValidate(schedule)
             THEN /\ last'.error = InvalidCron
                  /\ tasks' = tasks /\ timers' = timers
             ELSE /\ p \in DOMAIN tasks' /\ tasks'[p] = schedule
                  /\ \A x \in DOMAIN timers :
                        timers'[x] = IF x[1] = p
                                     THEN (IF x[2] = schedule THEN 1 ELSE 0)
                                     ELSE timers[x]
      ]_vars

\* An invalid expression was refused on a started scheduler and the plugin's
\* timer on */15, installed by an earlier reschedule, is still live
C22_Witness ==
    /\ last.op = "reschedulePlugin" /\ last.error = InvalidCron
    /\ running
    /\ last.pluginId \in DOMAIN tasks
    /\ tasks[last.pluginId] = "*/15"
    /\ timers[<<last.pluginId, "*/15">>] = 1

\* C30: the live timers are exactly the tasks of the Map, one per scheduled
\* plugin, on the expression the Map holds for it; a scheduler that is not
\* started has none; and a timer that fires belongs to a plugin of the Map.
C30_OneTimer ==
    /\ [](/\ \A x \in DOMAIN timers :
               timers[x] = IF x[1] \in DOMAIN tasks /\ tasks[x[1]] = x[2] THEN 1 ELSE 0
          /\ ~running => tasks = NoTasks)
    /\ [][ last'.op = "executePlugin" => last'.pluginId \in DOMAIN tasks ]_vars

\* alpha, started on */5, was rescheduled to */15: its one live timer is the
\* new one
C30_Witness ==
    /\ last.op = "reschedulePlugin" /\ last.pluginId = "alpha" /\ last.error = NoError
    /\ running
    /\ tasks["alpha"] = "*/15"
    /\ timers[<<"alpha", "*/5">>] = 0
    /\ timers[<<"alpha", "*/15">>] = 1

----------------------------------------------------------------------------
\* Properties of the hot reload

\* The file holds a valid document in which plugin p is disabled
DisabledInFile(p) ==
    /\ file.kind = "doc"
    /\ ValidateConfig(LoadConfig(file))
    /\ HasConfig(LoadConfig(file), p)
    /\ ~LoadConfig(file).plugins[p].enabled

NoTimer(p) ==
    /\ p \notin DOMAIN tasks
    /\ \A schedule \in ValidCrons : timers[<<p, schedule>>] = 0

\* C23: once the watcher has seen an edit that leaves plugin p disabled in a
\* valid document, the reload that follows removes p's timer (unless the file
\* is edited again first); and whenever no reload is under way, a plugin that
\* the configuration disables has no timer and no scheduled fetch of it can
\* start.
C23_DisableUnschedules ==
    /\ \A p \in Loadable :
          (debounceTimer /\ DisabledInFile(p)) ~> (NoTimer(p) \/ ~DisabledInFile(p))
    /\ [](\A p \in Loadable :
             (reload = <<>> /\ HasConfig(config, p) /\ ~config.plugins[p].enabled)
                => (NoTimer(p) /\ ~ENABLED CronFire(p)))

\* The reload after an edit that disabled alpha is over: alpha, which was
\* scheduled, has no timer; the scheduler runs on and beta keeps its timer
C23_Witness ==
    /\ last.op = "configReloaded"
    /\ reload = <<>> /\ ~debounceTimer
    /\ DisabledInFile("alpha")
    /\ config = LoadConfig(file)
    /\ running
    /\ NoTimer("alpha")
    /\ "beta" \in DOMAIN tasks

\* The position of a call among the calls made, 0 when it was not made
At(steps, call) ==
    IF \E i \in 1..Len(steps) : steps[i] = call
    THEN CHOOSE i \in 1..Len(steps) : steps[i] = call
    ELSE 0

Times_(steps, call) == Cardinality({i \in 1..Len(steps) : steps[i] = call})

C25_ReloadIsolated ==
    [][ last'.op = "configReloaded" =>
          LET cfg   == last'.returned[1]
              steps == last'.steps
          IN  /\ \A p \in plugins :
                    HasConfig(cfg, p) =>
                       /\ Times_(steps, ShutdownOf(p)) = 1
                       /\ (/\ cfg.plugins[p].enabled
                           /\ Times_(steps, InitializeOf(p)) = 0) => p \notin initialized'
              /\ \A p \in PluginIds :
                    HasConfig(config, p) =>
                       IF ~config.plugins[p].enabled
                       THEN /\ p \notin DOMAIN tasks'
                            /\ \A schedule \in ValidCrons : timers'[<<p, schedule>>] = 0
                       ELSE (running /\ CronValidate(config.plugins[p].schedule)) =>
                               /\ p \in DOMAIN tasks'
                               /\ tasks'[p] = config.plugins[p].schedule
                               /\ timers'[<<p, tasks'[p]>>] = 1
      ]_vars

\* alpha's shutdown() threw during a reload: beta, which comes after alpha,
\* was shut down and initialized, and both have their timers
C25_Witness ==
    /\ last.op = "configReloaded"
    /\ last.steps = <<ShutdownOf("alpha"), ShutdownOf("beta"), InitializeOf("beta")>>
    /\ last.returned[1].plugins["alpha"].enabled
    /\ initialized = {"beta"}
    /\ running
    /\ DOMAIN tasks = {"alpha", "beta"}

----------------------------------------------------------------------------
\* Properties of the watcher

\* C26: at most one timeout is pending at any time; an event the watcher gets
\* puts the one timeout at the full quiet window; a reload-and-validate pass
\* starts only when the timeout set by the last event has run its window, and
\* it leaves no timeout behind that could start another pass; and once the
\* file is written no more, the pending timeout fires.
C26_Debounce ==
    /\ [](/\ Len(timeouts) <= 1
          /\ debounceTimer <=> timeouts # <<>>)
    /\ [][ (last'.op = "handleFileChange" /\ watching) => timeouts' = <<DebounceMs>> ]_vars
    /\ [][ last'.op = "processConfigChange" =>
              /\ timeouts # <<>>
              /\ timeouts[Len(timeouts)] <= 0
              /\ timeouts' = <<>> ]_vars
    /\ (<>[][file' = file]_vars) => <>[](timeouts = <<>>)

\* A pass ran for an edit the running watcher saw: no timeout is left and the
\* document of the file is in force
C26_Witness ==
    /\ last.op = "processConfigChange"
    /\ timeouts = <<>>
    /\ watching
    /\ file # [kind |-> "doc", doc |-> ServiceConfig]
    /\ config = LoadConfig(file)

----------------------------------------------------------------------------
\* Properties of the Configuration Manager

Mutators == {"setPreference", "setPreferences", "setFeedConfig",
             "setImportanceConfig", "setLLMConfig"}

\* C27: when a mutating accessor of the Configuration Manager has returned,
\* the file holds the in-memory document and a get of the key that was set
\* returns the value that was set.
C27_MutatorsPersist ==
    [][ last'.op \in Mutators =>
          /\ file' = SaveConfig(config')
          /\ LoadConfig(file') = config'
          /\ GetPreference(config', last'.pluginId) = last'.returned[1] ]_vars

----------------------------------------------------------------------------
\* Properties of plugin discovery

\* The members the plugin contract requires
Required == {"initialize", "shutdown", "fetchHeadlines", "getConfigSchema",
             "validateConfig", "getAuthRequirements", "healthCheck",
             "getRetentionPolicy"}

Provides(c) == c.imports /\ Required \subseteq c.members

Logged(steps, i) == \E k \in 1..Len(steps) : steps[k].file = i

\* C28: discovery registers a candidate only if it provides every required
\* member of the plugin contract; a candidate missing one is rejected and
\* logged, and the candidates after it are still looked at.
C28_Discovery ==
    [][ last'.op = "PluginManager.initialize" =>
          \A i \in 1..Len(upstream.files) :
             LET c == upstream.files[i] IN
             /\ LoadOrder[i] \in plugins' => Provides(c)
             /\ ~Provides(c) => LoadOrder[i] \notin plugins' /\ Logged(last'.steps, i)
             /\ c.imports /\ TopixPlugin \subseteq c.members => LoadOrder[i] \in plugins'
      ]_vars

----------------------------------------------------------------------------
\* Properties of the startup

LiveTimer(p) == \E schedule \in ValidCrons : timers[<<p, schedule>>] > 0

\* pluginManager.initialize() has returned, and for a loaded plugin p it has
\* called p.initialize(), which succeeded or was one that can fail
Attempted(p) ==
    /\ plugins # {}
    /\ p \in plugins => (p \in initialized \/ p \in upstream.faulty)

\* C29: no timer of the scheduler is installed, and none fires, before
\* pluginManager.initialize() has returned: start() starts the scheduler only
\* after that, so a scheduled fetch never runs for a plugin whose
\* initialization has not been attempted.
C29_TimersAfterInitialize ==
    /\ [](\A p \in PluginIds : LiveTimer(p) => Attempted(p))
    /\ [][ \A p \in PluginIds : CronFire(p) => Attempted(p) ]_vars
    /\ [][ last'.op \in {"start", "start.await"} =>
             \A k \in 1..Len(last'.steps) :
                last'.steps[k] = "scheduler.start" =>
                   \E j \in 1..(k - 1) : last'.steps[j] = "pluginManager.initialize" ]_vars

\* A timer installed by start() has fired for a plugin that was initialized
C29_Witness ==
    /\ last.op = "executePlugin"
    /\ last.error = NoError
    /\ last.pluginId \in initialized
    /\ running
    /\ server = "listening"
    /\ startCall.pc = "idle"

----------------------------------------------------------------------------
\* Properties of the plugins that fail to load or to initialize

Warned(steps, level, p) ==
    \E k \in 1..Len(steps) : steps[k] = [level |-> level, pluginId |-> p]

\* C31: an enabled configuration without a loaded plugin is skipped:
\* initialization logs a warning for it and still initializes the other
\* plugins, and a timer that fires for it starts no fetch and writes neither a
\* headline nor a run state.
C31_OrphanSkipped ==
    /\ [][ last'.op = "PluginManager.initialize" =>
             \A p \in PluginIds :
                /\ (Enabled(config, p) /\ p \notin plugins') =>
                      (Warned(last'.steps, "warn", p) /\ p \notin initialized')
                /\ (Enabled(config, p) /\ p \in plugins' /\ p \notin upstream.faulty) =>
                      p \in initialized' ]_vars
    /\ [][ \A p \in PluginIds :
             (CronFire(p) /\ p \notin plugins) =>
                /\ last'.error = NotFound
                /\ UNCHANGED <<inflight, fetchCalls, headlines, pluginRows>> ]_vars
    /\ [](\A p \in PluginIds \ Loadable :
             /\ inflight[p] = 0
             /\ RowsOf(headlines, p) = {})

\* The timer of a configuration without a plugin has fired after the
\* initialization that warned of it
C31_Witness ==
    /\ last.op = "executePlugin"
    /\ last.pluginId = "ghost"
    /\ last.error = NotFound
    /\ "alpha" \in initialized
    /\ "alpha" \in DOMAIN pluginRows

\* C32: a plugin whose initialize(config) fails during the initialization has
\* the failure recorded as its last error and stays un-initialized while the
\* other enabled plugins are initialized, and a later fetch of it ends with an
\* error that is recorded.
C32_InitFailure ==
    /\ [][ last'.op = "PluginManager.initialize" =>
             /\ last'.error = NoError
             /\ \A p \in plugins' :
                  Enabled(config, p) =>
                     \/ p \in initialized'
                     \/ /\ Warned(last'.steps, "error", p)
                        /\ p \in DOMAIN pluginRows'
                        /\ pluginRows'[p].last_error = InitFailed ]_vars
    /\ [][ (last'.op = "fetchDone" /\ last'.pluginId \notin initialized) =>
             /\ last'.error # NoError
             /\ last'.pluginId \in DOMAIN pluginRows'
             /\ pluginRows'[last'.pluginId].last_error # NoError ]_vars

----------------------------------------------------------------------------
\* Properties of the scheduler's stop

\* C33: Scheduler.stop() cancels every installed timer at once: no timer
\* remains and no timer starts a fetch while the scheduler is stopped.  It
\* does not wait for the fetches in flight and does not touch them: they end
\* on their own afterwards.
C33_StopCancels ==
    /\ [][ last'.op = "Scheduler.stop" =>
             /\ timers' = NoTimers
             /\ tasks' = NoTasks
             /\ ~running'
             /\ UNCHANGED <<inflight, headlines, pluginRows>> ]_vars
    /\ [](~running => \A p \in PluginIds : ~LiveTimer(p) /\ ~ENABLED CronFire(p))
    /\ [](\A p \in PluginIds : inflight[p] > 0 => ENABLED FetchComplete(p))

\* A fetch that a timer had started ended after the scheduler was stopped
C33_Witness ==
    /\ last.op = "fetchDone"
    /\ ~running
    /\ timers = NoTimers
    /\ fetchCalls > 0

----------------------------------------------------------------------------
\* Properties of the vault's delete

\* C34: after deleteCredentials(p) has returned, and until credentials are
\* stored for p again, getCredentials(p) returns null and listCredentials()
\* does not name p, whichever store took the credentials and whichever is in
\* use at the delete.
C34_DeleteForgets ==
    /\ [][ (last'.op = "getCredentials" /\ stored[last'.pluginId] = <<>>) =>
             (last'.error = NoError /\ last'.returned = <<>>) ]_vars
    /\ [][ last'.op = "listCredentials" =>
             \A k \in 1..Len(last'.returned) :
                stored[last'.returned[k].pluginId] # <<>> ]_vars


\* C35: a fetch that fails after the plugin has answered leaves the stored
\* headlines as they were: when an insert is refused or the retention step
\* raises, none of the returned headlines stays stored and none is deleted.
C35_FailedFetchLeavesRows ==
    [][ (last'.op = "fetchDone" /\ last'.error # NoError)
        => headlines' = headlines ]_vars


\* the change handler or the reload route has shut p down and awaits its
\* initialize(config)
Reinitializing(p) ==
    \E i \in 1..Len(reload) : Head(reload[i].calls) = InitializeOf(p)

\* C36: while a plugin is being reloaded, by a configuration change or by the
\* reload route, nothing calls its fetchHeadlines between its shutdown() and
\* the return of its initialize(config), also when its timer fires in between.
C36_NoFetchWhileReloading ==
    [][ \A p \in PluginIds :
          (fetchCalls' = fetchCalls + 1 /\ last'.pluginId = p) => ~Reinitializing(p) ]_vars


ChangeHandlers == {i \in 1..Len(reload) : reload[i].kind = "change"}

\* C37: change handlers never overlap: a second settled change does not start
\* its handler while the handler of an earlier one awaits a plugin, and when a
\* handler ends with none left, every loaded plugin with an entry is initialized
\* and has a timer exactly if the latest configuration enables it.
C37_HandlersDoNotOverlap ==
    /\ [](Cardinality(ChangeHandlers) <= 1)
    /\ [][ (last'.op = "configReloaded" /\ reload' = <<>>)
           => \A p \in plugins' :
                 HasConfig(config', p)
                 => /\ (p \in initialized') <=> config'.plugins[p].enabled
                    /\ running' => (LiveTimer(p)' <=> config'.plugins[p].enabled) ]_vars

\* C38: while the scheduler runs and no reload is in progress, a plugin has a
\* timer only if the configuration in memory has an entry for it that is
\* enabled.
C38_TimerOnlyIfEnabled ==
    [](running /\ reload = <<>> => \A p \in PluginIds : LiveTimer(p) => Enabled(config, p))


\* C39: after a termination signal the process exits only when teardown is
\* complete and both marker files are removed, also when a second signal
\* arrives while the listener is being closed.
C39_ExitAfterTeardown ==
    signals.exit # <<>>
    => /\ pidFile = <<>> /\ statusFile = <<>>
       /\ server = "null" /\ ~running /\ ~watching /\ ~signalHandlers
       /\ plugins = {} /\ ~dbInstance


\* C40: a get that meets a malformed keychain payload for one plugin does not
\* change what get returns for any other plugin: credentials the keychain
\* holds for the others are still returned in full.
C40_MalformedIsLocal ==
    [][ \A q \in Loadable :
          (/\ last'.op = "getCredentials" /\ last'.pluginId = q
           /\ keychainAvailable /\ keychainOk
           /\ q \in DOMAIN keychain /\ ~JsonParses(keychain[q]))
          => \A p \in Loadable \ {q} :
                (GetCredentialsResult(keychainAvailable, p).value)'
                    = GetCredentialsResult(keychainAvailable, p).value
      ]_vars

====
